---- MODULE Spec2Model ----
(***************************************************************************)
(* Conversation state and context-window compaction engine of aicli:       *)
(* aicli/conversation/state.py, context_window.py, manager.py and core.py. *)
(*                                                                         *)
(* Text is abstracted to its word count (count_tokens only looks at        *)
(* len(text.split())), datetimes to integers read from a clock `now`, and  *)
(* uuids to a counter.  Floats are replaced by exact percent arithmetic:   *)
(* 0.85 is 85, 0.7 is 70.  Every datetime.now() reads a value larger than  *)
(* the one before (facade calls are serialized and take longer than the    *)
(* clock's microsecond).  The message lists and metadata dicts of the      *)
(* states are mutable Python objects: heap keeps their addresses and       *)
(* contents next to the values the states are compared by.                 *)
(***************************************************************************)
EXTENDS Integers, Sequences, FiniteSets, TLC

VARIABLES
    state,        \* StateManager._state, a ConversationState
    subscribers,  \* StateManager._subscribers, in registration order
    middleware,   \* StateManager._middleware
    strategy,     \* ContextWindowManager.default_strategy
    stack,        \* active _notify_subscribers rounds, innermost last
    delivered,    \* history: the states each subscriber was called with
    lastDispatch, \* history: what the most recent dispatch did
    now,          \* the clock behind datetime.now()
    nextId,       \* the next uuid
    ops,          \* facade / dispatch calls made so far
    force,        \* the most recent force_compaction call and what it returned
    heap,         \* the list and dict objects the states' messages and metadata refer to
    probe,        \* input and result of a direct ConversationCompactor.compact call
    closures,     \* the unsubscribe closures subscribe has returned, oldest first
    executor,     \* StateManager._executor: "running" or "shutdown"
    threads,      \* the dispatch calls of concurrent tasks
    compaction_callbacks, \* ContextWindowManager._compaction_callbacks
    callback_log  \* history: the compaction callbacks invoked, with their argument

\* the registrations' closures and the executor
lifecycleVars == <<closures, executor>>

\* concurrent dispatch calls and the compaction callbacks
sideVars == <<threads, compaction_callbacks, callback_log>>

vars == <<state, subscribers, middleware, strategy, stack, delivered,
          lastDispatch, now, nextId, ops, force, heap, probe, lifecycleVars, sideVars>>

machineVars == <<state, subscribers, middleware, strategy, stack, delivered,
                 lastDispatch, now, nextId, ops, force, heap, lifecycleVars, sideVars>>

-----------------------------------------------------------------------------
(* Bounds of the model *)

MaxOps == 3        \* facade / dispatch / subscribe calls per behaviour
MaxDepth == 3      \* nested notification rounds before the interpreter's
                   \* recursion limit ends the chain with RecursionError
MaxLen == 3        \* longest message sequence handed to compact directly
MaxPreserve == 2   \* largest preserve_recent_messages handed to compact directly
MaxTasks == 2      \* dispatch calls that may run concurrently
MaxCalls == 2      \* calls of one unsubscribe closure
MaxCallbacks == 3  \* registered compaction callbacks
MaxMiddleware == 2 \* longest middleware list a StateManager is built with
MaxAdds == 3       \* add_message calls made by concurrent tasks

-----------------------------------------------------------------------------
(* state.py *)

MessageRole == {"user", "assistant", "system", "tool"}

ConversationStatus == {"active", "paused", "completed", "error"}

DefaultCompactionThreshold == 85

\* Message.create: tool_calls and metadata are kept as the word counts of
\* their stringified entries; <<>> stands for None, [] and {}.
MessageCreate(id, role, words, metadata, tool_calls, ts) ==
    [id |-> id, role |-> role, words |-> words, timestamp |-> ts,
     metadata |-> metadata, tool_calls |-> tool_calls]

utilization_num(cw) == IF cw.max_tokens > 0 THEN cw.current_tokens ELSE 0

utilization_den(cw) == IF cw.max_tokens > 0 THEN cw.max_tokens ELSE 1

\* needs_compaction with a strict comparison
needs_compaction_strict(cw) ==
    utilization_num(cw) * 100 > cw.compaction_threshold * utilization_den(cw)

\* ContextWindow.needs_compaction: utilization >= compaction_threshold
\* (current_tokens / max_tokens >= threshold / 100, cross-multiplied)
needs_compaction(cw) ==
    utilization_num(cw) * 100 >= cw.compaction_threshold * utilization_den(cw)

\* ConversationState.create.  tokens_none records that current_tokens holds
\* None instead of a number (a COMPACT_CONVERSATION payload can put it there).
ConversationStateCreate(max_tokens, metadata, t) ==
    [id |-> 1,
     messages |-> <<>>,
     status |-> "active",
     context_window |-> [max_tokens |-> max_tokens, current_tokens |-> 0,
                         compaction_threshold |-> DefaultCompactionThreshold,
                         tokens_none |-> FALSE],
     token_usage |-> [prompt_tokens |-> 0, completion_tokens |-> 0, total_tokens |-> 0],
     metadata |-> metadata,
     created_at |-> t,
     updated_at |-> t]

TokenUsageAdd(a, b) ==
    [prompt_tokens |-> a.prompt_tokens + b.prompt_tokens,
     completion_tokens |-> a.completion_tokens + b.completion_tokens,
     total_tokens |-> a.total_tokens + b.total_tokens]

\* self.messages.append(message): the list object of the old state is changed
ListAppendInPlace(lists, ref, message) ==
    [lists |-> [lists EXCEPT ![ref] = Append(@, message)], ref |-> ref]

\* new_messages = self.messages + [message]: a new list object; lists holds
\* the contents of every list object, ref is the address of self.messages
ListConcat(lists, ref, message) ==
    [lists |-> Append(lists, Append(lists[ref], message)), ref |-> Len(lists) + 1]

\* new_metadata = {**self.metadata, key: value}: a new dict object holding merged
DictMerge(dicts, ref, merged) ==
    [dicts |-> Append(dicts, merged), ref |-> Len(dicts) + 1]

\* add_message leaving token_usage as it was
state_add_message_uncounted(st, message, token_count, t) ==
    [st EXCEPT !.messages = Append(st.messages, message),
               !.context_window.current_tokens = st.context_window.current_tokens + token_count,
               !.updated_at = t]

state_add_message(st, message, token_count, t) ==
    [st EXCEPT !.messages = Append(st.messages, message),
               !.token_usage = TokenUsageAdd(st.token_usage,
                   [prompt_tokens |-> 0, completion_tokens |-> 0,
                    total_tokens |-> token_count]),
               !.context_window.current_tokens = st.context_window.current_tokens + token_count,
               !.updated_at = t]

state_update_status(st, status, t) ==
    [st EXCEPT !.status = status, !.updated_at = t]

\* compact recomputing token_usage from the new token count
state_compact_recount(st, new_messages, new_token_count, t) ==
    [st EXCEPT !.messages = new_messages,
               !.token_usage.total_tokens = new_token_count,
               !.context_window.current_tokens = new_token_count,
               !.updated_at = t]

state_compact(st, new_messages, new_token_count, t) ==
    [st EXCEPT !.messages = new_messages,
               !.context_window.current_tokens = new_token_count,
               !.updated_at = t]

\* the UPDATE_CONTEXT_WINDOW branch emptying the window's token count
update_context_window_reset(st, max_tokens) ==
    [st EXCEPT !.context_window.max_tokens = max_tokens,
               !.context_window.current_tokens = 0]

\* The UPDATE_CONTEXT_WINDOW branch of the reducer: replace(state,
\* context_window=replace(state.context_window, max_tokens=max_tokens))
update_context_window(st, max_tokens) ==
    [st EXCEPT !.context_window.max_tokens = max_tokens]

-----------------------------------------------------------------------------
(* context_window.py: SimpleTokenCounter *)

\* int(words * 1.3)
count_tokens(words) == (words * 13) \div 10

RECURSIVE SumTokens(_)
SumTokens(ws) ==
    IF ws = <<>> THEN 0 ELSE count_tokens(Head(ws)) + SumTokens(Tail(ws))

RoleTokens == 2

count_message_tokens(msg) ==
    count_tokens(msg.words) + RoleTokens + SumTokens(msg.metadata) + SumTokens(msg.tool_calls)

RECURSIVE calculate_conversation_tokens(_)
calculate_conversation_tokens(messages) ==
    IF messages = <<>> THEN 0
    ELSE count_message_tokens(Head(messages)) + calculate_conversation_tokens(Tail(messages))

-----------------------------------------------------------------------------
(* context_window.py: CompactionStrategy and ConversationCompactor *)

CompactionStrategy(name, preserve_recent, preserve_system, ratio) ==
    [name |-> name, priority |-> 1,
     preserve_recent_messages |-> preserve_recent,
     preserve_system_messages |-> preserve_system,
     preserve_tool_results |-> TRUE,
     max_compaction_ratio |-> ratio]

\* ContextWindowManager.__init__: the default strategy
DefaultStrategy == CompactionStrategy("chronological", 5, TRUE, 70)

RegisteredStrategies == {"chronological", "semantic", "tool_context"}

\* A Python slice bound normalised against a list of length n.
PyIndex(i, n) == IF i < 0 THEN (IF n + i < 0 THEN 0 ELSE n + i)
                 ELSE (IF i > n THEN n ELSE i)

\* s[start:stop] for list s, 0-based, stop exclusive
PySlice(s, start, stop) ==
    LET a == PyIndex(start, Len(s))
        b == PyIndex(stop, Len(s))
    IN  IF a >= b THEN <<>> ELSE SubSeq(s, a + 1, b)

\* s[-p:]  (for p = 0 this is s[0:], the whole list)
PyLast(s, p) == PySlice(s, 0 - p, Len(s))

\* the loop taking every message, whatever the budget
GreedyAll(msgs, i, current_tokens, remaining_budget) == SubSeq(msgs, 1, i)

\* the loop over reversed(msgs): take messages newest-first while the running
\* total stays within the budget, stop at the first one that does not fit
RECURSIVE GreedyNewest(_, _, _, _)
GreedyNewest(msgs, i, current_tokens, remaining_budget) ==
    IF i = 0 THEN <<>>
    ELSE LET msg_tokens == count_message_tokens(msgs[i])
         IN  IF current_tokens + msg_tokens <= remaining_budget
             THEN Append(GreedyNewest(msgs, i - 1, current_tokens + msg_tokens,
                                      remaining_budget), msgs[i])
             ELSE <<>>

IsSystem(msg) == msg.role = "system"

chronological_compaction(messages, target_tokens, strat) ==
    IF Len(messages) <= strat.preserve_recent_messages THEN messages
    ELSE
      LET system_messages ==
              SelectSeq(messages, LAMBDA m : IsSystem(m) /\ strat.preserve_system_messages)
          recent_messages == PyLast(messages, strat.preserve_recent_messages)
          system_tokens == calculate_conversation_tokens(system_messages)
          recent_tokens == calculate_conversation_tokens(recent_messages)
          remaining_budget == target_tokens - system_tokens - recent_tokens
          middle_messages == PySlice(messages, Len(system_messages),
                                     0 - strat.preserve_recent_messages)
          selected_middle == GreedyNewest(middle_messages, Len(middle_messages),
                                          0, remaining_budget)
      IN  IF remaining_budget <= 0
          THEN system_messages \o recent_messages
          ELSE system_messages \o selected_middle \o recent_messages

\* a semantic strategy that keeps the conversation as it is
semantic_compaction_keep(messages, target_tokens, strat) == messages

semantic_compaction(messages, target_tokens, strat) ==
    chronological_compaction(messages, target_tokens, strat)

\* sorted(key=timestamp): a stable insertion sort
RECURSIVE InsertByTimestamp(_, _)
InsertByTimestamp(sorted, m) ==
    IF sorted = <<>> THEN <<m>>
    ELSE IF sorted[Len(sorted)].timestamp <= m.timestamp THEN Append(sorted, m)
    ELSE Append(InsertByTimestamp(SubSeq(sorted, 1, Len(sorted) - 1), m),
                sorted[Len(sorted)])

RECURSIVE SortedByTimestamp(_)
SortedByTimestamp(s) ==
    IF s = <<>> THEN <<>>
    ELSE InsertByTimestamp(SortedByTimestamp(SubSeq(s, 1, Len(s) - 1)), s[Len(s)])

IsImportant(msg, strat) ==
    \/ msg.role = "tool"
    \/ msg.tool_calls # <<>>
    \/ (msg.role = "system" /\ strat.preserve_system_messages)

\* tool_context without its over-budget branch: always fill and merge
tool_context_compaction_merge(messages, target_tokens, strat) ==
    LET important_messages == SelectSeq(messages, LAMBDA m : IsImportant(m, strat))
        regular_messages == SelectSeq(messages, LAMBDA m : ~IsImportant(m, strat))
        remaining_budget == target_tokens
                              - calculate_conversation_tokens(important_messages)
    IN  SortedByTimestamp(important_messages
                            \o GreedyNewest(regular_messages, Len(regular_messages),
                                            0, remaining_budget))

tool_context_compaction(messages, target_tokens, strat) ==
    LET important_messages == SelectSeq(messages, LAMBDA m : IsImportant(m, strat))
        regular_messages == SelectSeq(messages, LAMBDA m : ~IsImportant(m, strat))
        important_tokens == calculate_conversation_tokens(important_messages)
        remaining_budget == target_tokens - important_tokens
        selected_regular == GreedyNewest(regular_messages, Len(regular_messages),
                                         0, remaining_budget)
    IN  IF important_tokens >= target_tokens
        THEN chronological_compaction(important_messages, target_tokens, strat)
        ELSE SortedByTimestamp(important_messages \o selected_regular)

\* compact treating an unregistered name as chronological instead of raising
compact_lenient(messages, target_tokens, strat) ==
    LET compacted_messages == chronological_compaction(messages, target_tokens, strat)
    IN  [raised |-> FALSE, original_messages |-> messages,
         compacted_messages |-> compacted_messages,
         tokens_saved |-> calculate_conversation_tokens(messages)
                            - calculate_conversation_tokens(compacted_messages),
         strategy_used |-> strat.name,
         same_object |-> Len(messages) <= strat.preserve_recent_messages]

\* CompactionResult.__init__ (compaction_ratio is derived from the others)
CompactionResult(original_messages, compacted_messages, tokens_saved, strategy_used) ==
    [original_messages |-> original_messages, compacted_messages |-> compacted_messages,
     tokens_saved |-> tokens_saved, strategy_used |-> strategy_used]

\* _chronological_compaction returns the list object it was given when
\* len(messages) <= preserve_recent_messages; every other path builds a list
returns_input(messages, strat) ==
    /\ strat.name \in {"chronological", "semantic"}
    /\ Len(messages) <= strat.preserve_recent_messages

\* ConversationCompactor.compact; raised stands for the ValueError,
\* same_object tells that compacted_messages is the list object passed in
compact(messages, target_tokens, strat) ==
    IF strat.name \notin RegisteredStrategies
    THEN [raised |-> TRUE, original_messages |-> messages, compacted_messages |-> messages,
          tokens_saved |-> 0, strategy_used |-> strat.name, same_object |-> FALSE]
    ELSE LET compacted_messages ==
                 CASE strat.name = "chronological" ->
                          chronological_compaction(messages, target_tokens, strat)
                   [] strat.name = "semantic" ->
                          semantic_compaction(messages, target_tokens, strat)
                   [] strat.name = "tool_context" ->
                          tool_context_compaction(messages, target_tokens, strat)
             original_tokens == calculate_conversation_tokens(messages)
             compacted_tokens == calculate_conversation_tokens(compacted_messages)
         IN  [raised |-> FALSE, original_messages |-> messages,
              compacted_messages |-> compacted_messages,
              tokens_saved |-> original_tokens - compacted_tokens,
              strategy_used |-> strat.name,
              same_object |-> returns_input(messages, strat)]

-----------------------------------------------------------------------------
(* context_window.py: ContextWindowManager *)

\* int(max_tokens * (1 - strategy.max_compaction_ratio))
target_tokens_for(max_tokens, strat) ==
    (max_tokens * (100 - strat.max_compaction_ratio)) \div 100

\* compact_conversation reporting the token total of its input
compact_conversation_stale(st, strat) ==
    LET result == compact(st.messages,
                          target_tokens_for(st.context_window.max_tokens, strat), strat)
    IN  [raised |-> result.raised,
         none |-> FALSE,
         messages |-> result.compacted_messages,
         token_count |-> calculate_conversation_tokens(st.messages),
         tokens_saved |-> result.tokens_saved,
         same_object |-> result.same_object,
         callbacks |-> IF result.raised THEN 0 ELSE 1]

OnCompaction == "_on_compaction"  \* ConversationManager._on_compaction
Callback == "cb"                  \* a callback given to add_compaction_callback
FailingCallback == "cb_bad"       \* one given to add_compaction_callback that raises

\* the callback loop without its try/except: a raising callback ends it
NextCallbackAbort(i, callback_raised, n_callbacks) ==
    IF callback_raised THEN n_callbacks + 1 ELSE i + 1

\* The callback loop of compact_conversation catches what a callback raises
\* and goes on with the next one.
NextCallback(i, callback_raised, n_callbacks) == i + 1

\* the loop over self._compaction_callbacks from position i on: the
\* invocations it makes, each with the compaction result
RECURSIVE callback_loop(_, _, _)
callback_loop(callbacks, i, result) ==
    IF i > Len(callbacks) THEN <<>>
    ELSE <<[callback |-> callbacks[i], result |-> result]>>
           \o callback_loop(callbacks,
                  NextCallback(i, callbacks[i] = FailingCallback, Len(callbacks)),
                  result)

\* what compact_conversation adds to the log of invocations: nothing when
\* compact raised or was not called, else the callback loop on the result
Invocations(c) ==
    IF c.raised \/ c.none THEN <<>>
    ELSE callback_loop(compaction_callbacks, 1,
                       [compacted_messages |-> c.messages,
                        tokens_saved |-> c.tokens_saved])

\* compact_conversation: the exceptions of the compaction callbacks are
\* swallowed; callbacks counts the registered callbacks the loop goes through.
\* An unknown strategy name raises out of compact before the callback loop.
compact_conversation(st, strat) ==
    LET result == compact(st.messages,
                          target_tokens_for(st.context_window.max_tokens, strat), strat)
    IN  [raised |-> result.raised,
         none |-> FALSE,
         messages |-> result.compacted_messages,
         token_count |-> calculate_conversation_tokens(result.compacted_messages),
         tokens_saved |-> result.tokens_saved,
         same_object |-> result.same_object,
         callbacks |-> IF result.raised THEN 0 ELSE Len(compaction_callbacks)]

\* check_and_compact handing back the conversation as it is when the
\* compaction raises
check_and_compact_fallback(st, strat) ==
    IF st.context_window.tokens_none \/ ~needs_compaction(st.context_window)
    THEN [raised |-> st.context_window.tokens_none, none |-> ~st.context_window.tokens_none,
          messages |-> <<>>, token_count |-> 0, tokens_saved |-> 0,
          same_object |-> FALSE, callbacks |-> 0]
    ELSE IF compact_conversation(st, strat).raised
    THEN [raised |-> FALSE, none |-> FALSE, messages |-> st.messages,
          token_count |-> st.context_window.current_tokens, tokens_saved |-> 0,
          same_object |-> TRUE, callbacks |-> 0]
    ELSE compact_conversation(st, strat)

\* check_and_compact: None unless state.context_window.needs_compaction; a
\* current_tokens of None makes the utilization division raise TypeError
check_and_compact(st, strat) ==
    IF st.context_window.tokens_none
    THEN [raised |-> TRUE, none |-> FALSE, messages |-> <<>>, token_count |-> 0,
          tokens_saved |-> 0, same_object |-> FALSE, callbacks |-> 0]
    ELSE IF ~needs_compaction(st.context_window)
    THEN [raised |-> FALSE, none |-> TRUE, messages |-> <<>>, token_count |-> 0,
          tokens_saved |-> 0, same_object |-> FALSE, callbacks |-> 0]
    ELSE compact_conversation(st, strat)

-----------------------------------------------------------------------------
(* manager.py: actions, reducer, middleware *)

\* Payload values carry their Python type in kind; a payload is a function
\* whose domain is the set of keys present (<<>> is None or {}).
IntVal(n) == [kind |-> "int", v |-> n]

NoneVal == [kind |-> "None", v |-> 0]

MessageVal(m) == [kind |-> "Message", m |-> m]

ListVal(ms) == [kind |-> "list", ms |-> ms]

StatusVal(s) == [kind |-> "ConversationStatus", s |-> s]

StrVal(s) == [kind |-> "str", s |-> s]

StateAction(type, payload) == [type |-> type, payload |-> payload]

\* payload.get(key, default)
PayloadGet(payload, key, default) ==
    IF key \in DOMAIN payload THEN payload[key] ELSE default

\* truth value of a payload value
Truthy(val) ==
    CASE val.kind = "None" -> FALSE
      [] val.kind = "int" -> val.v # 0
      [] val.kind = "list" -> val.ms # <<>>
      [] val.kind = "str" -> val.s # ""
      [] OTHER -> TRUE

\* What a layer of the pipeline hands back: the state it returns or the fact
\* that it raised; reduced tells whether the reducer was called on the way.
\* trace lists who was entered and how it was left, in the order it happened.
Event(who, what) == [who |-> who, what |-> what]

Returned(st) == [raised |-> FALSE, state |-> st, reduced |-> TRUE,
                 trace |-> <<Event("reducer", "return")>>]

Raised(st) == [raised |-> TRUE, state |-> st, reduced |-> TRUE,
               trace |-> <<Event("reducer", "raise")>>]

\* the reducer refreshing updated_at where it returns its input
FallthroughTouch(st, t) == Returned([st EXCEPT !.updated_at = t])

\* ConversationReducer.__call__, last line: return state
Fallthrough(st, t) == Returned(st)

\* what ends up in the message list for a truthy payload message
Entry(val) == IF val.kind = "Message" THEN val.m ELSE val

\* ConversationReducer.__call__; t is the value datetime.now() returns inside
\* the state transition.  The payload values generated here are of the listed
\* kinds only.
ConversationReducer(st, action, t) ==
    LET payload == action.payload IN
    CASE action.type = "ADD_MESSAGE" ->
           LET message == PayloadGet(payload, "message", NoneVal)
               token_count == PayloadGet(payload, "token_count", IntVal(0))
           IN  IF Truthy(message)
               THEN IF token_count.kind # "int" \/ st.context_window.tokens_none
                    THEN Raised(st)   \* TypeError: int + None
                    ELSE Returned(state_add_message(st, Entry(message), token_count.v, t))
               ELSE Fallthrough(st, t)
      [] action.type = "UPDATE_STATUS" ->
           LET status == PayloadGet(payload, "status", NoneVal)
           IN  IF Truthy(status)
               THEN Returned(state_update_status(st, status.s, t))
               ELSE Fallthrough(st, t)
      [] action.type = "COMPACT_CONVERSATION" ->
           LET new_messages == PayloadGet(payload, "messages", ListVal(<<>>))
               new_token_count == PayloadGet(payload, "token_count", IntVal(0))
           IN  IF new_token_count.kind = "int"
               THEN Returned([state_compact(st, new_messages.ms, new_token_count.v, t)
                                 EXCEPT !.context_window.tokens_none = FALSE])
               ELSE Returned([state_compact(st, new_messages.ms, 0, t)
                                 EXCEPT !.context_window.tokens_none = TRUE])
      [] action.type = "UPDATE_METADATA" ->
           LET key == PayloadGet(payload, "key", NoneVal)
               value == PayloadGet(payload, "value", NoneVal)
           IN  IF key.kind # "None"
               THEN Returned([st EXCEPT
                        !.metadata = [k \in (DOMAIN st.metadata) \cup {key.s} |->
                                         IF k = key.s THEN value.s ELSE st.metadata[k]],
                        !.updated_at = t])
               ELSE Fallthrough(st, t)
      [] action.type = "UPDATE_CONTEXT_WINDOW" ->
           LET max_tokens == PayloadGet(payload, "max_tokens", NoneVal)
           IN  IF Truthy(max_tokens)
               THEN Returned(update_context_window(st, max_tokens.v))
               ELSE Fallthrough(st, t)
      [] OTHER -> Fallthrough(st, t)

\* ValidationMiddleware._validate_action
validate_action(action) ==
    CASE action.type = "ADD_MESSAGE" ->
           PayloadGet(action.payload, "message", NoneVal).kind = "Message"
      [] action.type = "UPDATE_STATUS" ->
           PayloadGet(action.payload, "status", NoneVal).kind = "ConversationStatus"
      [] OTHER -> TRUE

\* ValidationMiddleware._validate_state, for a state whose current_tokens is a number
validate_state(st) ==
    ~(st.context_window.current_tokens < 0) /\ ~(Len(st.messages) < 0)

\* LoggingMiddleware.__call__: observational
LoggingMiddleware(action, st, next) == next

\* the middleware without its check of the action
ValidationMiddlewareUnchecked(action, st, next) ==
    IF next.raised THEN next
    ELSE IF next.state.context_window.tokens_none THEN [next EXCEPT !.raised = TRUE, !.state = st]
    ELSE IF ~validate_state(next.state) THEN [next EXCEPT !.state = st]
    ELSE next

\* ValidationMiddleware.__call__; next is what next_middleware(action) produced.
\* Comparing a current_tokens of None with 0 raises TypeError.
ValidationMiddleware(action, st, next) ==
    IF ~validate_action(action)
    THEN [raised |-> FALSE, state |-> st, reduced |-> FALSE, trace |-> <<>>]
    ELSE IF next.raised THEN next
    ELSE IF next.state.context_window.tokens_none THEN [next EXCEPT !.raised = TRUE, !.state = st]
    ELSE IF ~validate_state(next.state) THEN [next EXCEPT !.state = st]
    ELSE next

DefaultMiddleware == <<"validation", "logging">>

\* wrapper(action) of _build_middleware_chain around middleware mw: the call
\* mw(action, self._state, next_fn), entered and then left with r
Wrapper(mw, r) ==
    [r EXCEPT !.trace = <<Event(mw, "enter")>> \o @
                          \o <<Event(mw, IF r.raised THEN "raise" ELSE "return")>>]

\* StateManager._apply_middleware with the chain of _build_middleware_chain:
\* middleware[1] is outermost, the reducer innermost, every layer is handed
\* self._state.  (As written, line 235 awaits inside a plain def; the chain
\* modelled is the one the wrapper closures of lines 217-233 describe.)
RECURSIVE Chain(_, _, _, _, _)
Chain(mws, i, action, st, t) ==
    IF i > Len(mws) THEN ConversationReducer(st, action, t)
    ELSE Wrapper(mws[i],
             IF mws[i] = "validation"
             THEN ValidationMiddleware(action, st, Chain(mws, i + 1, action, st, t))
             ELSE LoggingMiddleware(action, st, Chain(mws, i + 1, action, st, t)))

\* the chain built by a loop over self._middleware instead of its reverse:
\* the last middleware ends up outermost
apply_middleware_forward(mws, action, st, t) ==
    Chain([i \in 1..Len(mws) |-> mws[Len(mws) + 1 - i]], 1, action, st, t)

apply_middleware(mws, action, st, t) == Chain(mws, 1, action, st, t)

-----------------------------------------------------------------------------
(* manager.py: StateManager.dispatch and _notify_subscribers *)

\* dispatch without its try/except: what the pipeline raises leaves dispatch
DispatchNoCatch(mws, action, st, t) ==
    LET res == apply_middleware(mws, action, st, t) IN
    IF res.raised
    THEN [state |-> st, notify |-> FALSE, pipeline_raised |-> TRUE, raised |-> TRUE,
          result |-> <<>>, returned |-> <<>>, reduced |-> res.reduced, trace |-> res.trace]
    ELSE IF res.state # st
    THEN [state |-> res.state, notify |-> TRUE, pipeline_raised |-> FALSE,
          raised |-> FALSE, result |-> <<res.state>>, returned |-> <<>>,
          reduced |-> res.reduced, trace |-> res.trace]
    ELSE [state |-> st, notify |-> FALSE, pipeline_raised |-> FALSE, raised |-> FALSE,
          result |-> <<res.state>>, returned |-> <<st>>, reduced |-> res.reduced, trace |-> res.trace]

\* dispatch without the comparison: every pipeline result starts a round
DispatchAlwaysNotify(mws, action, st, t) ==
    LET res == apply_middleware(mws, action, st, t) IN
    IF res.raised
    THEN [state |-> st, notify |-> FALSE, pipeline_raised |-> TRUE, raised |-> FALSE,
          result |-> <<>>, returned |-> <<st>>, reduced |-> res.reduced, trace |-> res.trace]
    ELSE [state |-> res.state, notify |-> TRUE, pipeline_raised |-> FALSE,
          raised |-> FALSE, result |-> <<res.state>>, returned |-> <<>>,
          reduced |-> res.reduced, trace |-> res.trace]

\* StateManager.dispatch up to the call of _notify_subscribers: the pipeline
\* runs inside try/except Exception, the state is replaced when the result
\* differs from self._state.  raised tells whether an exception leaves
\* dispatch, result is what the pipeline returned, returned what dispatch
\* returns when it starts no round.
Dispatch(mws, action, st, t) ==
    LET res == apply_middleware(mws, action, st, t) IN
    IF res.raised
    THEN [state |-> st, notify |-> FALSE, pipeline_raised |-> TRUE, raised |-> FALSE,
          result |-> <<>>, returned |-> <<st>>, reduced |-> res.reduced, trace |-> res.trace]
    ELSE IF res.state # st
    THEN [state |-> res.state, notify |-> TRUE, pipeline_raised |-> FALSE,
          raised |-> FALSE, result |-> <<res.state>>, returned |-> <<>>,
          reduced |-> res.reduced, trace |-> res.trace]
    ELSE [state |-> st, notify |-> FALSE, pipeline_raised |-> FALSE, raised |-> FALSE,
          result |-> <<res.state>>, returned |-> <<st>>, reduced |-> res.reduced, trace |-> res.trace]

\* One activation of _notify_subscribers(old_state, new_state): idx is the
\* position the for loop has reached in self._subscribers, called the
\* subscribers it has invoked.  cause and reduction describe the dispatch
\* that started the round.
\* registered is self._subscribers as the round finds it, removed the
\* callbacks taken out of the list while the round is open, awaited the
\* position whose run_in_executor future the round has been resumed on
Frame(old_state, new_state, cause) ==
    [new_state |-> new_state, idx |-> 1, called |-> <<>>, cause |-> cause,
     registered |-> subscribers, removed |-> {}, awaited |-> 0,
     reduction |-> old_state.context_window.current_tokens
                     - new_state.context_window.current_tokens]

\* the loop without its try/except: a raising subscriber ends the round
NextIdxAbort(idx, subscriber_raised, n_subscribers) ==
    IF subscriber_raised THEN n_subscribers + 1 ELSE idx + 1

\* The loop of _notify_subscribers catches what a subscriber raises and goes
\* on with the next one.
NextIdx(idx, subscriber_raised, n_subscribers) == idx + 1

Top == stack[Len(stack)]

Idle == stack = <<>>

\* no facade call is in progress
Quiescent == Idle /\ force.phase \notin {"compacted", "dispatched"}

\* The objects behind a state that replaced the current one: add_message
\* builds a new list, compact stores the list of the payload (same_object: it
\* is the list of the replaced state), update_metadata builds a new dict, and
\* dataclasses.replace keeps the objects of every field it is not given.
\* held is every state the manager has held, with the addresses of its
\* messages list and metadata dict.
HeapAfter(h, action, new_state, same_object) ==
    LET payload == action.payload
        l == CASE action.type = "ADD_MESSAGE" ->
                    ListConcat(h.lists, h.msgs, Entry(PayloadGet(payload, "message", NoneVal)))
               [] action.type = "COMPACT_CONVERSATION" /\ ~same_object ->
                    [lists |-> Append(h.lists, new_state.messages),
                     ref |-> Len(h.lists) + 1]
               [] OTHER -> [lists |-> h.lists, ref |-> h.msgs]
        d == IF action.type = "UPDATE_METADATA"
             THEN DictMerge(h.dicts, h.meta, new_state.metadata)
             ELSE [dicts |-> h.dicts, ref |-> h.meta]
    IN  [lists |-> l.lists, dicts |-> d.dicts, msgs |-> l.ref, meta |-> d.ref,
         held |-> h.held \cup {[state |-> new_state, msgs |-> l.ref, meta |-> d.ref]}]

\* the effect of one dispatch call made while the rounds in below are active;
\* same_object: the payload's message list is the list of the current state
DoDispatch(below, action, t, same_object) ==
    \E d \in {Dispatch(middleware, action, state, t)} :
    /\ state' = d.state
    /\ heap' = IF d.notify THEN HeapAfter(heap, action, d.state, same_object) ELSE heap
    /\ stack' = IF d.notify THEN Append(below, Frame(state, d.state, action.type))
                ELSE below
    /\ lastDispatch' = [n |-> lastDispatch.n + 1, type |-> action.type, prior |-> state,
                        pipeline_raised |-> d.pipeline_raised, raised |-> d.raised,
                        notify |-> d.notify, result |-> d.result,
                        returned |-> d.returned, reduced |-> d.reduced,
                        trace |-> d.trace,
                        action |-> action]

-----------------------------------------------------------------------------
(* core.py: ConversationManager *)

AutoHandler == "auto"    \* ConversationManager._on_state_change
Observer == "obs"        \* a callback given to subscribe_to_changes
FailingObserver == "bad" \* a callback given to subscribe_to_changes that raises

Observers == {Observer, FailingObserver}

\* what add_message is called with: role, content length in words, tool calls
AddInputs ==
    {[role |-> "user", words |-> 22, tool_calls |-> <<>>],
     [role |-> "user", words |-> 65, tool_calls |-> <<>>],
     [role |-> "system", words |-> 65, tool_calls |-> <<>>],
     [role |-> "tool", words |-> 22, tool_calls |-> <<>>],
     [role |-> "assistant", words |-> 22, tool_calls |-> <<3>>]}

\* ConversationManager.add_message
AddMessage(in) ==
    /\ Quiescent
    /\ ops < MaxOps
    /\ LET message == MessageCreate(nextId, in.role, in.words, <<>>, in.tool_calls, now + 1)
           token_count == count_message_tokens(message)
           action == StateAction("ADD_MESSAGE",
                         [message |-> MessageVal(message),
                          token_count |-> IntVal(token_count)])
       IN  DoDispatch(stack, action, now + 2, FALSE)
    /\ now' = now + 2
    /\ nextId' = nextId + 1
    /\ ops' = ops + 1
    /\ UNCHANGED <<subscribers, middleware, strategy, delivered, force, probe, lifecycleVars, sideVars>>

\* ConversationManager.update_status
UpdateStatus(status) ==
    /\ Quiescent
    /\ ops < MaxOps
    /\ DoDispatch(stack, StateAction("UPDATE_STATUS", [status |-> StatusVal(status)]),
                  now + 1, FALSE)
    /\ now' = now + 1
    /\ ops' = ops + 1
    /\ UNCHANGED <<subscribers, middleware, strategy, delivered, nextId, force, probe, lifecycleVars, sideVars>>

\* ConversationManager.update_metadata
UpdateMetadata(key, value) ==
    /\ Quiescent
    /\ ops < MaxOps
    /\ DoDispatch(stack, StateAction("UPDATE_METADATA",
                             [key |-> StrVal(key), value |-> StrVal(value)]),
                  now + 1, FALSE)
    /\ now' = now + 1
    /\ ops' = ops + 1
    /\ UNCHANGED <<subscribers, middleware, strategy, delivered, nextId, force, probe, lifecycleVars, sideVars>>

\* ConversationManager.force_compaction, lines 116-119: the call of
\* compact_conversation on current_state; arg is <<>> for strategy=None, else
\* <<strategy>>.  The ValueError of an unregistered name leaves
\* compact_conversation and force_compaction before anything is dispatched.
ForceCompaction(arg) ==
    /\ Quiescent
    /\ ops < MaxOps
    /\ LET strat == IF arg = <<>> THEN strategy ELSE arg[1]
           c == compact_conversation(state, strat)
       IN  /\ force' = [phase |-> IF c.raised THEN "raised" ELSE "compacted",
                        before |-> state, messages |-> c.messages,
                        token_count |-> c.token_count,
                        strategy_used |-> IF arg = <<>> THEN "default" ELSE strat.name,
                        callbacks |-> c.callbacks, result |-> <<>>, after |-> <<>>,
                        strategy |-> strat, same_object |-> c.same_object]
           /\ callback_log' = callback_log \o Invocations(c)
    /\ ops' = ops + 1
    /\ UNCHANGED <<state, subscribers, middleware, strategy, stack, delivered,
                   lastDispatch, now, nextId, heap, probe, lifecycleVars, threads,
                   compaction_callbacks>>

\* force_compaction, lines 121-129: the dispatch of COMPACT_CONVERSATION with
\* what compact_conversation returned
ForceDispatch ==
    /\ Idle
    /\ force.phase = "compacted"
    /\ DoDispatch(stack,
                  StateAction("COMPACT_CONVERSATION",
                      [messages |-> ListVal(force.messages),
                       token_count |-> IntVal(force.token_count)]),
                  now + 1, force.same_object)
    /\ force' = [force EXCEPT !.phase = "dispatched"]
    /\ now' = now + 1
    /\ UNCHANGED <<subscribers, middleware, strategy, delivered, nextId, ops, probe, lifecycleVars, sideVars>>

\* force_compaction after its dispatch call has returned (every round it
\* started has ended): the CompactionResult is built from current_state;
\* after records the state the call returns on
ForceReturn ==
    /\ Idle
    /\ force.phase = "dispatched"
    /\ force' = [force EXCEPT
                    !.phase = "returned",
                    !.after = <<state>>,
                    !.result = <<CompactionResult(state.messages, force.messages,
                                    state.context_window.current_tokens - force.token_count,
                                    force.strategy_used)>>]
    /\ UNCHANGED <<state, subscribers, middleware, strategy, stack, delivered,
                   lastDispatch, now, nextId, ops, heap, probe, lifecycleVars, sideVars>>

\* actions handed to state_manager.dispatch directly
RawActions ==
    {StateAction("UPDATE_CONTEXT_WINDOW", [max_tokens |-> IntVal(m)]) : m \in {100, 200}}
    \cup {StateAction("ADD_MESSAGE",
              [message |-> MessageVal(MessageCreate(0, "user", 1, <<>>, <<>>, 0)),
               token_count |-> NoneVal]),
          StateAction("COMPACT_CONVERSATION",
              [messages |-> ListVal(<<>>), token_count |-> NoneVal])}

\* a Message a client builds itself
ClientMessage == MessageCreate(0, "user", 1, <<>>, <<>>, 0)

KnownActionTypes ==
    {"ADD_MESSAGE", "UPDATE_STATUS", "COMPACT_CONVERSATION", "UPDATE_METADATA",
     "UPDATE_CONTEXT_WINDOW"}

\* Actions a client hands to dispatch on the State Manager: well-formed ones
\* (with negative token counts too), ones the validation rejects, ones that
\* lack their field or their whole payload, and ones of an unknown type.
ManagerActions ==
    {StateAction("ADD_MESSAGE",
         [message |-> MessageVal(ClientMessage), token_count |-> IntVal(n)]) : n \in {3, -5}}
    \cup {StateAction("COMPACT_CONVERSATION",
              [messages |-> ListVal(<<>>), token_count |-> IntVal(n)]) : n \in {0, -1}}
    \cup {StateAction(type, <<>>) : type \in KnownActionTypes \cup {"RESET"}}
    \cup {StateAction("ADD_MESSAGE",
              [message |-> StrVal("hello"), token_count |-> IntVal(3)]),
          StateAction("UPDATE_STATUS", [status |-> StatusVal("paused")]),
          StateAction("UPDATE_STATUS", [status |-> StrVal("bogus")]),
          StateAction("COMPACT_CONVERSATION", [token_count |-> IntVal(0)]),
          StateAction("UPDATE_METADATA", [key |-> StrVal("topic"), value |-> StrVal("x")]),
          StateAction("UPDATE_METADATA", [value |-> StrVal("x")]),
          StateAction("UPDATE_CONTEXT_WINDOW", [max_tokens |-> IntVal(100)]),
          StateAction("RESET", [message |-> MessageVal(ClientMessage),
                                status |-> StatusVal("paused")])}

\* state_manager.dispatch(action) called by a client
RawDispatch(action) ==
    /\ Quiescent
    /\ ops < MaxOps
    /\ DoDispatch(stack, action, now + 1, FALSE)
    /\ now' = now + 1
    /\ ops' = ops + 1
    /\ UNCHANGED <<subscribers, middleware, strategy, delivered, nextId, force, probe, lifecycleVars, sideVars>>

\* The closure subscribe returns: it holds the callback only.  calls counts
\* how often the closure has been called.
Closure(callback) == [callback |-> callback, calls |-> 0]

\* ConversationManager.subscribe_to_changes
Subscribe(s) ==
    /\ Quiescent
    /\ ops < MaxOps
    /\ \A i \in 1..Len(subscribers) : subscribers[i] # s
    /\ subscribers' = Append(subscribers, s)
    /\ closures' = Append(closures, Closure(s))
    /\ ops' = ops + 1
    /\ UNCHANGED <<state, middleware, strategy, stack, delivered, lastDispatch, now,
                   nextId, force, heap, probe, executor, sideVars>>

\* subscribe_to_changes with a callback that is registered already: subscribe
\* appends it once more
SubscribeAgain(s) ==
    /\ Quiescent
    /\ ops < MaxOps
    /\ \E i \in 1..Len(subscribers) : subscribers[i] = s
    /\ subscribers' = Append(subscribers, s)
    /\ closures' = Append(closures, Closure(s))
    /\ ops' = ops + 1
    /\ UNCHANGED <<state, middleware, strategy, stack, delivered, lastDispatch, now,
                   nextId, force, heap, probe, executor, sideVars>>

\* an unsubscribe that removes nothing
ListKeep(list, x) == list

\* list.remove(x) for an x the list contains: the first occurrence goes
ListRemove(list, x) ==
    LET i == CHOOSE k \in 1..Len(list) :
                 list[k] = x /\ \A j \in 1..(k - 1) : list[j] # x
    IN  SubSeq(list, 1, i - 1) \o SubSeq(list, i + 1, Len(list))

\* the closure unsubscribe():
\* if callback in self._subscribers: self._subscribers.remove(callback)
unsubscribe(list, callback) ==
    IF \E i \in 1..Len(list) : list[i] = callback
    THEN ListRemove(list, callback)
    ELSE list

\* a client calls the closure that its k-th subscribe_to_changes returned
\* (closure 1 is ConversationManager._unsubscribe)
Unsubscribe(k) ==
    /\ Quiescent
    /\ k \in 2..Len(closures)
    /\ closures[k].calls < MaxCalls
    /\ subscribers' = unsubscribe(subscribers, closures[k].callback)
    /\ closures' = [closures EXCEPT ![k].calls = @ + 1]
    /\ UNCHANGED <<state, middleware, strategy, stack, delivered, lastDispatch, now,
                   nextId, ops, force, heap, probe, executor, sideVars>>

\* ConversationManager.close: self._unsubscribe() and state_manager.close(),
\* which shuts the executor down
Close ==
    /\ Quiescent
    /\ closures[1].calls < MaxCalls
    /\ subscribers' = unsubscribe(subscribers, closures[1].callback)
    /\ closures' = [closures EXCEPT ![1].calls = @ + 1]
    /\ executor' = "shutdown"
    /\ UNCHANGED <<state, middleware, strategy, stack, delivered, lastDispatch, now,
                   nextId, ops, force, heap, probe, sideVars>>

\* context_window_manager.add_compaction_callback(callback)
AddCompactionCallback(callback) ==
    /\ Quiescent
    /\ Len(compaction_callbacks) < MaxCallbacks
    /\ compaction_callbacks' = Append(compaction_callbacks, callback)
    /\ UNCHANGED <<state, subscribers, middleware, strategy, stack, delivered,
                   lastDispatch, now, nextId, ops, force, heap, probe, lifecycleVars,
                   threads, callback_log>>

\* _notify_subscribers awaits a coroutine function (the auto-compaction
\* handler) directly and hands any other callback to the executor; after the
\* executor's shutdown run_in_executor raises RuntimeError, which the loop
\* catches, and the callback is not invoked.
Invoked(s) == s = AutoHandler \/ executor = "running"

\* One iteration of the loop in _notify_subscribers of the innermost round.
\* For ConversationManager._on_state_change the iteration contains the whole
\* handler: check_and_compact and, when it returns a result, the dispatch of
\* COMPACT_CONVERSATION, whose own round then runs before this one continues.
\* Everything the handler raises is caught by its except clause; at MaxDepth
\* nested rounds the dispatch call ends in RecursionError.
NotifyStep ==
    /\ ~Idle
    /\ Top.idx <= Len(subscribers)
    /\ LET f == Top
           s == subscribers[f.idx]
           stepped == [stack EXCEPT ![Len(stack)] =
                          [f EXCEPT !.idx = NextIdx(f.idx, s = FailingObserver,
                                                    Len(subscribers)),
                                    !.called = Append(f.called, s)]]
           c == check_and_compact(f.new_state, strategy)
       IN  /\ delivered' = IF Invoked(s)
                           THEN [delivered EXCEPT ![s] = Append(@, f.new_state)]
                           ELSE delivered
           /\ IF s = AutoHandler /\ ~c.raised /\ ~c.none /\ Len(stack) < MaxDepth
              THEN /\ DoDispatch(stepped,
                         StateAction("COMPACT_CONVERSATION",
                             [messages |-> ListVal(c.messages),
                              token_count |-> IntVal(c.token_count)]),
                         now + 1, c.same_object)
                   /\ now' = now + 1
              ELSE /\ stack' = stepped
                   /\ UNCHANGED <<state, lastDispatch, now, heap>>
           /\ callback_log' = IF s = AutoHandler
                              THEN callback_log \o Invocations(c)
                              ELSE callback_log
    /\ UNCHANGED <<subscribers, middleware, strategy, nextId, ops, force, probe,
                   lifecycleVars, threads, compaction_callbacks>>

\* An iteration of the loop whose subscriber, a callback given to
\* subscribe_to_changes, calls the closure that the k-th subscribe call
\* returned (its own or another one) before it returns or raises.  The loop
\* iterates over self._subscribers itself: the list iterator keeps a position,
\* and the position moves on by one whatever the list has become.
NotifyStepUnsubscribe(k) ==
    /\ ~Idle
    /\ Top.idx <= Len(subscribers)
    /\ subscribers[Top.idx] \in Observers
    /\ Invoked(subscribers[Top.idx])
    /\ k \in 2..Len(closures)
    /\ closures[k].calls < MaxCalls
    /\ LET f == Top
           s == subscribers[f.idx]
           callback == closures[k].callback
           gone == IF \E i \in 1..Len(subscribers) : subscribers[i] = callback
                   THEN {callback} ELSE {}
       IN  /\ delivered' = [delivered EXCEPT ![s] = Append(@, f.new_state)]
           /\ subscribers' = unsubscribe(subscribers, callback)
           /\ closures' = [closures EXCEPT ![k].calls = @ + 1]
           /\ stack' = [i \in 1..Len(stack) |->
                           IF i = Len(stack)
                           THEN [f EXCEPT !.idx = NextIdx(f.idx, s = FailingObserver,
                                                          Len(subscribers)),
                                          !.called = Append(f.called, s),
                                          !.removed = @ \cup gone]
                           ELSE [stack[i] EXCEPT !.removed = @ \cup gone]]
    /\ UNCHANGED <<state, middleware, strategy, lastDispatch, now, nextId, ops, force,
                   heap, probe, executor, sideVars>>

\* _notify_subscribers returns when its loop has run off the end of the list
NotifyReturn ==
    /\ ~Idle
    /\ Top.idx > Len(subscribers)
    /\ stack' = SubSeq(stack, 1, Len(stack) - 1)
    /\ UNCHANGED <<state, subscribers, middleware, strategy, delivered, lastDispatch,
                   now, nextId, ops, force, heap, probe, lifecycleVars, sideVars>>

-----------------------------------------------------------------------------
(* Construction *)

DemoMaxTokens == 200

\* strategies a ConversationManager is constructed with
InitStrategies ==
    {DefaultStrategy,
     CompactionStrategy("chronological", 1, TRUE, 70),
     CompactionStrategy("tool_context", 1, TRUE, 70)}

\* no force_compaction call has been made
NoForce == [phase |-> "none", before |-> <<>>, messages |-> <<>>, token_count |-> 0,
            strategy_used |-> "", callbacks |-> 0, result |-> <<>>, after |-> <<>>,
            strategy |-> DefaultStrategy, same_object |-> FALSE]

NoProbe == [messages |-> <<>>, target_tokens |-> 0, strategy |-> DefaultStrategy,
            result |-> <<>>]

\* no dispatch call of the task is in progress
IdleTask == [pc |-> "idle", action |-> StateAction("", <<>>), new_state |-> <<>>,
             trace |-> <<>>, stack |-> <<>>]

Tasks == 1..MaxTasks

\* Every caller awaits its dispatch call before the next one is made, as the
\* facade does, and no call is in progress.
NoTasks == [awaited |-> TRUE, task |-> [th \in Tasks |-> IdleTask]]

\* A StateManager with the given subscribers on a fresh ConversationState, and
\* the ContextWindowManager next to it, for one of the given configurations
\* <<middleware, default strategy>> and one of the given max_tokens
InitStateManager(configs, subs, sizes) ==
    /\ \E c \in configs : middleware = c[1] /\ strategy = c[2]
    /\ \E max_tokens \in sizes :
          state = ConversationStateCreate(max_tokens,
                      IF middleware = <<>> THEN <<>>
                      ELSE [created_by |-> "ConversationManager"], 0)
    /\ subscribers = subs
    /\ closures = [i \in 1..Len(subs) |-> Closure(subs[i])]
    /\ executor = "running"
    /\ compaction_callbacks = <<OnCompaction>>
    /\ callback_log = <<>>
    /\ stack = <<>>
    /\ delivered = [s \in {AutoHandler} \cup Observers |-> <<>>]
    /\ lastDispatch = [n |-> 0, type |-> "", prior |-> state, pipeline_raised |-> FALSE,
                       raised |-> FALSE, notify |-> FALSE, result |-> <<>>,
                       returned |-> <<>>, reduced |-> FALSE, trace |-> <<>>,
                       action |-> StateAction("", <<>>)]
    /\ now = 0
    /\ nextId = 1
    /\ ops = 0
    /\ force = NoForce
    /\ heap = [lists |-> <<state.messages>>, dicts |-> <<state.metadata>>,
               msgs |-> 1, meta |-> 1,
               held |-> {[state |-> state, msgs |-> 1, meta |-> 1]}]

\* ConversationManager.__init__ for one of the given configurations
\* <<middleware, default strategy>>, with max_tokens as in the example
InitWith(configs) ==
    /\ InitStateManager(configs, <<AutoHandler>>, {DemoMaxTokens})
    /\ threads = NoTasks

\* ConversationManager.__init__ as the factories of core.py call it:
\* create_default and create_with_strategy on the default pipeline,
\* create_minimal without middleware and with the default strategy
InitMachine ==
    InitWith(({DefaultMiddleware} \X InitStrategies) \cup {<<<<>>, DefaultStrategy>>})

Init == InitMachine /\ probe = NoProbe

Next ==
    \/ \E in \in AddInputs : AddMessage(in)
    \/ \E status \in {"paused"} : UpdateStatus(status)
    \/ \E action \in RawActions : RawDispatch(action)
    \/ \E s \in Observers : Subscribe(s)
    \/ NotifyStep
    \/ NotifyReturn

Spec == Init /\ [][Next]_vars

\* the facade used through add_message and subscribe_to_changes only
NextAdd ==
    \/ \E in \in AddInputs : AddMessage(in)
    \/ \E s \in Observers : Subscribe(s)
    \/ NotifyStep
    \/ NotifyReturn

SpecAdd == Init /\ [][NextAdd]_vars

\* the State Manager of a ConversationManager with the default strategy,
\* driven through dispatch and subscribe
InitDispatch == Init /\ strategy = DefaultStrategy

NextDispatch ==
    \/ \E action \in ManagerActions : RawDispatch(action)
    \/ \E s \in Observers : Subscribe(s)
    \/ NotifyStep
    \/ NotifyReturn

SpecDispatch == InitDispatch /\ [][NextDispatch]_vars

\* a strategy whose name ConversationCompactor has not registered
UnregisteredStrategy == CompactionStrategy("summarize", 5, TRUE, 70)

\* the facade with force_compaction, on managers whose default strategy is
\* the built-in one, a custom one or an unregistered one
InitForce ==
    /\ InitWith({DefaultMiddleware}
                 \X {DefaultStrategy, CompactionStrategy("chronological", 1, TRUE, 70),
                     UnregisteredStrategy})
    /\ probe = NoProbe

ForceAddInputs ==
    {[role |-> "user", words |-> 22, tool_calls |-> <<>>],
     [role |-> "user", words |-> 65, tool_calls |-> <<>>],
     [role |-> "system", words |-> 65, tool_calls |-> <<>>]}

\* the strategy argument of force_compaction
ForceArgs ==
    {<<>>, <<CompactionStrategy("chronological", 1, TRUE, 70)>>,
     <<CompactionStrategy("tool_context", 5, TRUE, 70)>>, <<UnregisteredStrategy>>}

NextForce ==
    \/ \E in \in ForceAddInputs : AddMessage(in)
    \/ \E status \in {"paused"} : UpdateStatus(status)
    \/ \E value \in {"x"} : UpdateMetadata("topic", value)
    \/ \E arg \in ForceArgs : ForceCompaction(arg)
    \/ ForceDispatch
    \/ ForceReturn
    \/ NotifyStep
    \/ NotifyReturn

SpecForce == InitForce /\ [][NextForce]_vars

-----------------------------------------------------------------------------
(* ConversationCompactor.compact called directly on drawn inputs *)

\* the messages a drawn sequence is built from: 3, 8 and 6 tokens
ProbeKinds ==
    {[role |-> r, words |-> w, tool_calls |-> <<>>] :
        r \in {"user", "system", "tool"}, w \in {1, 5}}
    \cup {[role |-> "assistant", words |-> 1, tool_calls |-> <<3>>],
          [role |-> "assistant", words |-> 5, tool_calls |-> <<>>]}

ProbeTargets == {0, 6, 12}

\* Messages in creation order.  With coarse, consecutive messages share a
\* clock reading (timestamps 1, 1, 2, 2, ...), otherwise timestamps are 1, 2, ...
ProbeMessages(kinds, coarse) ==
    [i \in 1..Len(kinds) |->
        MessageCreate(i, kinds[i].role, kinds[i].words, <<>>, kinds[i].tool_calls,
                      IF coarse THEN (i + 1) \div 2 ELSE i)]

ProbeStrategies ==
    {CompactionStrategy(n, p, b, 70) :
        n \in RegisteredStrategies, p \in 0..MaxPreserve, b \in BOOLEAN}
    \cup {CompactionStrategy("summarize", 5, TRUE, 70)}

\* only tool_context reads timestamps
ProbeInputs ==
    {[messages |-> ProbeMessages(kinds, coarse), target_tokens |-> t, strategy |-> st,
      result |-> <<>>] :
        kinds \in UNION {[1..n -> ProbeKinds] : n \in 0..MaxLen},
        coarse \in BOOLEAN, t \in ProbeTargets, st \in ProbeStrategies}

InitCompact ==
    /\ InitMachine
    /\ middleware = DefaultMiddleware
    /\ strategy = DefaultStrategy
    /\ probe \in {in \in ProbeInputs :
                    in.strategy.name = "tool_context" \/ in.messages = <<>>
                    \/ in.messages[Len(in.messages)].timestamp = Len(in.messages)}

CompactCall ==
    /\ probe.result = <<>>
    /\ probe' = [probe EXCEPT !.result =
                    <<compact(probe.messages, probe.target_tokens, probe.strategy)>>]
    /\ UNCHANGED machineVars

SpecCompact == InitCompact /\ [][CompactCall]_vars

\* managers with max_tokens 0, 100 and 1000, the default strategy built in,
\* custom or unregistered; messages of 3, 30, 83 and 85 tokens
TriggerSizes == {0, 100, 1000}

TriggerInputs ==
    {[role |-> "user", words |-> w, tool_calls |-> <<>>] : w \in {1, 22, 63, 64}}

InitTrigger ==
    /\ InitStateManager(
           ({DefaultMiddleware}
              \X {DefaultStrategy, CompactionStrategy("chronological", 1, TRUE, 70),
                  UnregisteredStrategy})
           \cup {<<<<>>, DefaultStrategy>>},
           <<AutoHandler>>, TriggerSizes)
    /\ threads = NoTasks
    /\ probe = NoProbe

NextTrigger ==
    \/ \E in \in TriggerInputs : AddMessage(in)
    \/ \E status \in {"paused"} : UpdateStatus(status)
    \/ NotifyStep
    \/ NotifyReturn

SpecTrigger == InitTrigger /\ [][NextTrigger]_vars

\* StateManager(initial_state, reducer, middleware) with every list of the two
\* middleware classes, driven through dispatch with actions the validation
\* accepts or rejects and actions on which the reducer or the validation raises
MiddlewareLists ==
    UNION {[1..n -> {"validation", "logging"}] : n \in 0..MaxMiddleware}

PipelineActions ==
    {a \in ManagerActions : a.type \in {"ADD_MESSAGE", "UPDATE_STATUS"}}
    \cup {a \in RawActions : a.type \in {"ADD_MESSAGE", "COMPACT_CONVERSATION"}}

InitMiddleware ==
    /\ InitStateManager(MiddlewareLists \X {DefaultStrategy}, <<AutoHandler>>,
                        {DemoMaxTokens})
    /\ threads = NoTasks
    /\ probe = NoProbe

NextMiddleware ==
    \/ \E action \in PipelineActions : RawDispatch(action)
    \/ NotifyStep
    \/ NotifyReturn

SpecMiddleware == InitMiddleware /\ [][NextMiddleware]_vars

\* the facade with force_compaction and compaction callbacks added to its
\* context window manager
CallbackAddInputs ==
    {[role |-> "user", words |-> 22, tool_calls |-> <<>>],
     [role |-> "user", words |-> 65, tool_calls |-> <<>>]}

CallbackForceArgs == {<<>>, <<CompactionStrategy("chronological", 1, TRUE, 70)>>}

InitCallbacks == InitWith({DefaultMiddleware} \X {DefaultStrategy}) /\ probe = NoProbe

NextCallbacks ==
    \/ \E in \in CallbackAddInputs : AddMessage(in)
    \/ \E callback \in {Callback, FailingCallback} : AddCompactionCallback(callback)
    \/ \E arg \in CallbackForceArgs : ForceCompaction(arg)
    \/ ForceDispatch
    \/ ForceReturn
    \/ NotifyStep
    \/ NotifyReturn

SpecCallbacks == InitCallbacks /\ [][NextCallbacks]_vars

\* the facade with subscribe_to_changes, the closures it returns, and close
SubsAddInputs ==
    {[role |-> "user", words |-> 22, tool_calls |-> <<>>],
     [role |-> "user", words |-> 65, tool_calls |-> <<>>]}

InitSubs == InitWith({DefaultMiddleware} \X {DefaultStrategy}) /\ probe = NoProbe

NextSubs ==
    \/ \E in \in SubsAddInputs : AddMessage(in)
    \/ \E s \in Observers : Subscribe(s)
    \/ \E s \in Observers : SubscribeAgain(s)
    \/ \E k \in 1..(MaxOps + 1) : Unsubscribe(k)
    \/ Close
    \/ NotifyStep
    \/ NotifyReturn

SpecSubs == InitSubs /\ [][NextSubs]_vars

\* the facade with subscribers that unsubscribe from inside their callbacks
InitUnsub == InitWith({DefaultMiddleware} \X {DefaultStrategy}) /\ probe = NoProbe

NextUnsub ==
    \/ \E in \in SubsAddInputs : AddMessage(in)
    \/ \E s \in Observers : Subscribe(s)
    \/ NotifyStep
    \/ \E k \in 1..(MaxOps + 1) : NotifyStepUnsubscribe(k)
    \/ NotifyReturn

SpecUnsub == InitUnsub /\ [][NextUnsub]_vars

-----------------------------------------------------------------------------
(* Dispatch calls of several tasks on one StateManager without subscribers. *)
(* dispatch holds no lock: between the read of self._state by the pipeline  *)
(* and the assignment of self._state another call can run, whenever the     *)
(* pipeline suspends or the calls come from several threads.                *)

\* the dispatch call of task th has started and has not returned
InProgress(th) == threads.task[th].pc \in {"called", "reduced"}

\* callers that never await: a dispatch call starts whenever a task wants
MayCallUnawaited(th) == TRUE

\* A task may call dispatch at any time, unless the callers await every
\* dispatch call before the next one is made (await self.state_manager.dispatch).
MayCall(th) == ~threads.awaited \/ \A o \in Tasks \ {th} : ~InProgress(o)

\* what task th dispatches: its own message of 3 or 8 tokens, or a status
TaskActions(th) ==
    {StateAction("ADD_MESSAGE",
         [message |-> MessageVal(MessageCreate(th, "user", w, <<>>, <<>>, 0)),
          token_count |-> IntVal(count_tokens(w) + RoleTokens)]) : w \in {1, 5}}
    \cup {StateAction("UPDATE_STATUS", [status |-> StatusVal("paused")])}

\* task th calls dispatch(action)
TaskCall(th, action) ==
    /\ threads.task[th].pc = "idle"
    /\ MayCall(th)
    /\ threads' = [threads EXCEPT !.task[th] =
                      [pc |-> "called", action |-> action, new_state |-> <<>>,
                       trace |-> <<>>, stack |-> <<>>]]
    /\ UNCHANGED <<state, subscribers, middleware, strategy, stack, delivered,
                   lastDispatch, now, nextId, ops, force, heap, probe, lifecycleVars,
                   compaction_callbacks, callback_log>>

\* dispatch, line 194: the pipeline reads self._state and computes new_state
\* (<<>> when it raised)
TaskReduce(th) ==
    /\ threads.task[th].pc = "called"
    /\ LET res == apply_middleware(middleware, threads.task[th].action, state, now + 1)
       IN  threads' = [threads EXCEPT
                          !.task[th].pc = "reduced",
                          !.task[th].trace = res.trace,
                          !.task[th].new_state =
                              IF res.raised THEN <<>> ELSE <<res.state>>]
    /\ now' = now + 1
    /\ UNCHANGED <<state, subscribers, middleware, strategy, stack, delivered,
                   lastDispatch, nextId, ops, force, heap, probe, lifecycleVars,
                   compaction_callbacks, callback_log>>

\* dispatch, lines 196-205: new_state is compared with the state held now and
\* stored; the round of _notify_subscribers finds no subscriber
TaskWrite(th) ==
    /\ threads.task[th].pc = "reduced"
    /\ LET t == threads.task[th]
           stores == t.new_state # <<>> /\ t.new_state[1] # state
           ref == Len(heap.lists) + 1
       IN  /\ state' = IF stores THEN t.new_state[1] ELSE state
           /\ heap' = IF stores
                      THEN [heap EXCEPT
                               !.lists = Append(@, state'.messages),
                               !.msgs = ref,
                               !.held = @ \cup {[state |-> state', msgs |-> ref,
                                                 meta |-> heap.meta]}]
                      ELSE heap
           /\ lastDispatch' = [n |-> lastDispatch.n + 1, type |-> t.action.type,
                               prior |-> state, pipeline_raised |-> t.new_state = <<>>,
                               raised |-> FALSE, notify |-> stores,
                               result |-> t.new_state,
                               returned |-> IF stores THEN <<>> ELSE <<state>>,
                               reduced |-> TRUE, trace |-> t.trace,
                               action |-> t.action]
    /\ threads' = [threads EXCEPT !.task[th].pc = "done"]
    /\ UNCHANGED <<subscribers, middleware, strategy, stack, delivered, now, nextId,
                   ops, force, probe, lifecycleVars, compaction_callbacks, callback_log>>

\* a StateManager of StateManagerFactory (default or minimal pipeline) that
\* nothing has subscribed to, with callers that await or do not
InitRace ==
    /\ InitStateManager({DefaultMiddleware, <<>>} \X {DefaultStrategy}, <<>>,
                        {DemoMaxTokens})
    /\ threads \in {[NoTasks EXCEPT !.awaited = b] : b \in BOOLEAN}
    /\ probe = NoProbe

NextRace ==
    \/ \E th \in Tasks : \E action \in TaskActions(th) : TaskCall(th, action)
    \/ \E th \in Tasks : TaskReduce(th)
    \/ \E th \in Tasks : TaskWrite(th)

SpecRace == InitRace /\ [][NextRace]_vars

-----------------------------------------------------------------------------
(* Tasks of one event loop calling add_message on a ConversationManager    *)
(* that a synchronous callback has subscribed to.  A task runs until it     *)
(* awaits the future of run_in_executor; then any task that is ready runs.  *)
(* stack holds the rounds of the running task, threads.task[th].stack those *)
(* of a suspended one.                                                      *)

\* a loop that hands every subscriber to the executor
SuspendsAlways(s) == TRUE

\* _notify_subscribers, lines 247-254: a coroutine function (the
\* auto-compaction handler) is awaited directly and runs on without a
\* suspension; any other callback is awaited through run_in_executor
Suspends(s) == s # AutoHandler

Running(th) == threads.task[th].pc = "running"

NoneRunning == \A th \in Tasks : ~Running(th)

\* messages of 30 and 86 tokens: two of the latter bring a window of 200
\* tokens to its compaction threshold
LoopAddInputs == {[role |-> "user", words |-> w, tool_calls |-> <<>>] : w \in {22, 65}}

\* Task th calls add_message: everything up to the first suspension of its
\* dispatch call is one step of the loop.  Tasks that are not in a call are
\* alike, so the call is given to the first of them.
LoopAddMessage(th, in) ==
    /\ NoneRunning
    /\ threads.task[th].pc = "idle"
    /\ \A o \in 1..(th - 1) : threads.task[o].pc # "idle"
    /\ nextId <= MaxAdds
    /\ LET message == MessageCreate(nextId, in.role, in.words, <<>>, in.tool_calls, now + 1)
           token_count == count_message_tokens(message)
           action == StateAction("ADD_MESSAGE",
                         [message |-> MessageVal(message),
                          token_count |-> IntVal(token_count)])
       IN  /\ DoDispatch(<<>>, action, now + 2, FALSE)
           /\ threads' = [threads EXCEPT !.task[th].pc = "running",
                                          !.task[th].action = action]
    /\ now' = now + 2
    /\ nextId' = nextId + 1
    /\ UNCHANGED <<subscribers, middleware, strategy, delivered, ops, force, probe,
                   lifecycleVars, compaction_callbacks, callback_log>>

\* the running task reaches `await run_in_executor(...)` and is suspended
LoopAwait(th) ==
    /\ Running(th)
    /\ ~Idle
    /\ Top.idx <= Len(subscribers)
    /\ Suspends(subscribers[Top.idx])
    /\ Top.awaited # Top.idx
    /\ threads' = [threads EXCEPT !.task[th].pc = "suspended",
                                  !.task[th].stack = stack]
    /\ stack' = <<>>
    /\ UNCHANGED <<state, subscribers, middleware, strategy, delivered, lastDispatch,
                   now, nextId, ops, force, heap, probe, lifecycleVars,
                   compaction_callbacks, callback_log>>

\* the future of a suspended task is done and the loop runs the task again
LoopResume(th) ==
    /\ NoneRunning
    /\ threads.task[th].pc = "suspended"
    /\ LET saved == threads.task[th].stack
       IN  stack' = [saved EXCEPT ![Len(saved)].awaited = saved[Len(saved)].idx]
    /\ threads' = [threads EXCEPT !.task[th].pc = "running",
                                  !.task[th].stack = <<>>]
    /\ UNCHANGED <<state, subscribers, middleware, strategy, delivered, lastDispatch,
                   now, nextId, ops, force, heap, probe, lifecycleVars,
                   compaction_callbacks, callback_log>>

\* an iteration of the running task's innermost round, for a subscriber that
\* is awaited directly or whose future is done
LoopNotify ==
    /\ ~NoneRunning
    /\ ~Idle
    /\ Top.idx <= Len(subscribers)
    /\ Suspends(subscribers[Top.idx]) => Top.awaited = Top.idx
    /\ NotifyStep

\* add_message of the running task returns
LoopReturn(th) ==
    /\ Running(th)
    /\ Idle
    /\ threads' = [threads EXCEPT !.task[th].pc = "idle"]
    /\ UNCHANGED <<state, subscribers, middleware, strategy, stack, delivered,
                   lastDispatch, now, nextId, ops, force, heap, probe, lifecycleVars,
                   compaction_callbacks, callback_log>>

\* ConversationManagerFactory.create_with_strategy(max_tokens=200,
\* preserve_recent=1), the default manager with a strategy that has something
\* to drop from two messages on, and one subscribe_to_changes(callback) with a
\* plain function
InitLoop ==
    /\ InitStateManager({DefaultMiddleware}
                          \X {CompactionStrategy("chronological", 1, TRUE, 70)},
                        <<AutoHandler, Observer>>, {DemoMaxTokens})
    /\ threads = NoTasks
    /\ probe = NoProbe

NextLoop ==
    \/ \E th \in Tasks : \E in \in LoopAddInputs : LoopAddMessage(th, in)
    \/ \E th \in Tasks : LoopAwait(th)
    \/ \E th \in Tasks : LoopResume(th)
    \/ LoopNotify
    \/ NotifyReturn
    \/ \E th \in Tasks : LoopReturn(th)

SpecLoop == InitLoop /\ [][NextLoop]_vars

-----------------------------------------------------------------------------
(* Properties *)

\* C1 (SpecAdd): Token accounting.  After any sequence of add_message calls,
\* auto-compactions included, the state held by the State Manager has
\* current_tokens equal to the sum of count_message_tokens over its messages.
C1_TokenAccounting ==
    /\ ~state.context_window.tokens_none
    /\ state.context_window.current_tokens = calculate_conversation_tokens(state.messages)

\* an auto-compaction that dropped messages has been applied
C1_Witness ==
    /\ lastDispatch.type = "COMPACT_CONVERSATION"
    /\ lastDispatch.notify
    /\ Len(state.messages) < Len(lastDispatch.prior.messages)
    /\ state.messages # <<>>

\* C2 (SpecAdd): Auto-compaction termination.  The chain of
\* CompactConversation dispatches stops when a compaction achieves no
\* reduction: a round started by a compaction that saved no token has no
\* further round nested in it.
C2_StopsWithoutReduction ==
    \A i \in 1..Len(stack) :
        (stack[i].cause = "COMPACT_CONVERSATION" /\ stack[i].reduction = 0)
            => i = Len(stack)

\* C3 (SpecAdd): Subscriber ordering.  The states delivered to any single
\* subscriber are strictly increasing in updated_at.
C3_SubscriberOrdering ==
    \A s \in DOMAIN delivered :
        \A i, j \in 1..Len(delivered[s]) :
            i < j => delivered[s][i].updated_at < delivered[s][j].updated_at

\* the states delivered to s since the facade call in progress began
DeliveredSince(s, t) == SelectSeq(delivered[s], LAMBDA d : d.updated_at >= t)

\* C4 (SpecAdd): Auto-compaction trigger.  On a default ConversationManager
\* with max_tokens = 200, when an add_message drives current_tokens to 170 or
\* more, the next state delivered to a subscriber registered through
\* subscribe_to_changes has needs_compaction = false.
C4_AutoCompactionTrigger ==
    (/\ strategy = DefaultStrategy
     /\ middleware = DefaultMiddleware
     /\ ~Idle
     /\ stack[1].cause = "ADD_MESSAGE"
     /\ stack[1].new_state.context_window.max_tokens = DemoMaxTokens
     /\ stack[1].new_state.context_window.current_tokens >= 170)
    => \A s \in Observers :
          LET next == DeliveredSince(s, stack[1].new_state.updated_at)
          IN  next # <<>> => ~needs_compaction(next[1].context_window)

ProbeResult == probe.result[1]

ProbeDone == probe.result # <<>> /\ ~ProbeResult.raised

\* C5 (SpecCompact): Compaction never increases tokens.  For every message
\* sequence, target and registered strategy, compact returns tokens_saved >= 0.
C5_NeverIncreasesTokens ==
    ProbeDone => ProbeResult.tokens_saved >= 0

\* number of positions of out holding the message with this id
Occurrences(out, id) == Cardinality({k \in 1..Len(out) : out[k].id = id})

\* C6 (SpecCompact): Chronological minimum retention.  Whenever
\* len(messages) > preserve_recent_messages, the output of chronological
\* compaction ends with exactly the last preserve_recent_messages input
\* messages in order, and a system message lying in that suffix appears only there.
C6_MinimumRetention ==
    (/\ ProbeDone
     /\ probe.strategy.name = "chronological"
     /\ Len(probe.messages) > probe.strategy.preserve_recent_messages)
    => LET in == probe.messages
           out == ProbeResult.compacted_messages
           p == probe.strategy.preserve_recent_messages
       IN  /\ Len(out) >= p
           /\ SubSeq(out, Len(out) - p + 1, Len(out)) = SubSeq(in, Len(in) - p + 1, Len(in))
           /\ \A i \in (Len(in) - p + 1)..Len(in) :
                 IsSystem(in[i]) => Occurrences(out, in[i].id) = 1

\* C7 (SpecCompact): tool_context ordering.  For inputs with non-decreasing
\* timestamps the output of tool_context compaction is sorted non-decreasing
\* by timestamp, in both branches.
C7_ToolContextSorted ==
    (ProbeDone /\ probe.strategy.name = "tool_context")
    => LET out == ProbeResult.compacted_messages
       IN  \A i \in 1..(Len(out) - 1) : out[i].timestamp <= out[i + 1].timestamp

\* a step in which dispatch was called
Dispatched == lastDispatch'.n # lastDispatch.n

\* C8 (Spec): Dispatch never fails visibly.  If the middleware chain or the
\* reducer raises, dispatch raises nothing, returns the prior state, leaves
\* the current state unchanged and notifies no subscriber.
C8_DispatchNeverFails ==
    [][(Dispatched /\ lastDispatch'.pipeline_raised)
         => /\ ~lastDispatch'.raised
            /\ lastDispatch'.returned = <<state>>
            /\ state' = state
            /\ stack' = stack
            /\ delivered' = delivered]_vars

\* the validation middleware has raised inside a dispatch
C8_Witness ==
    /\ lastDispatch.pipeline_raised
    /\ lastDispatch.type = "COMPACT_CONVERSATION"
    /\ middleware = DefaultMiddleware
    /\ Len(subscribers) > 1

\* every round has invoked, once each and in order, the subscribers before
\* the position its loop has reached
RoundsInOrder ==
    \A i \in 1..Len(stack) :
        /\ stack[i].idx <= Len(subscribers) + 1
        /\ stack[i].called = SubSeq(subscribers, 1, stack[i].idx - 1)

\* C9 (Spec): Notify iff changed.  dispatch replaces the current state and
\* starts a round that invokes every registered subscriber once with the new
\* state exactly when the pipeline result differs from the current state;
\* otherwise the state is kept and no subscriber is invoked.
C9_NotifyIffChanged ==
    /\ []RoundsInOrder
    /\ [][Dispatched =>
            LET d == lastDispatch'
                differs == d.result # <<>> /\ d.result[1] # state
            IN  IF differs
                THEN /\ state' = d.result[1]
                     /\ Len(stack') = Len(stack) + 1
                     /\ stack'[Len(stack')].new_state = state'
                     /\ stack'[Len(stack')].idx = 1
                     /\ stack'[Len(stack')].called = <<>>
                ELSE /\ state' = state
                     /\ Len(stack') = Len(stack)
                     /\ \A s \in Observers : delivered'[s] = delivered[s]]_vars

\* a dispatch whose pipeline result equalled the current state, with
\* subscribers registered
C9_Witness ==
    /\ lastDispatch.n > 0
    /\ lastDispatch.result = <<lastDispatch.prior>>
    /\ state = lastDispatch.prior
    /\ Len(subscribers) > 1
    /\ delivered[AutoHandler] # <<>>

\* C10 (Spec): Subscriber failure isolation.  When a subscriber raises during
\* a round, the State Manager keeps the new state, the loop goes on to the
\* next subscriber, every registered subscriber has been invoked with the new
\* state when the round ends, and nothing is raised out of dispatch.
C10_FailureIsolation ==
    /\ [](/\ ~lastDispatch.raised
          /\ \A i \in 1..Len(stack) :
                stack[i].idx > Len(subscribers) =>
                    /\ stack[i].called = subscribers
                    /\ \A k \in 1..Len(subscribers) :
                          \E n \in 1..Len(delivered[subscribers[k]]) :
                              delivered[subscribers[k]][n] = stack[i].new_state)
    /\ [][(delivered'[FailingObserver] # delivered[FailingObserver])
            => /\ state' = state
               /\ Len(stack') = Len(stack)
               /\ stack'[Len(stack')].idx = stack[Len(stack)].idx + 1]_vars

\* a round has ended in which a subscriber registered after the failing one
\* was invoked
C10_Witness ==
    /\ subscribers = <<AutoHandler, FailingObserver, Observer>>
    /\ ~Idle
    /\ Top.idx > Len(subscribers)
    /\ Top.called = subscribers
    /\ state = Top.new_state

\* the action handed to the dispatch made in this step
Action == lastDispatch'.action

\* the dispatch made in this step left everything as it was and called nobody
NoEffect ==
    /\ state' = state
    /\ lastDispatch'.returned = <<state>>
    /\ ~lastDispatch'.notify
    /\ stack' = stack
    /\ delivered' = delivered

\* C11 (SpecDispatch): Validation rejection.  On a default (validating) State
\* Manager an ADD_MESSAGE whose payload message is not a Message, or an
\* UPDATE_STATUS whose status is not a ConversationStatus, leaves the state
\* unchanged, never reaches the reducer and notifies no subscriber.
C11_ValidationRejection ==
    [][(/\ Dispatched
        /\ middleware = DefaultMiddleware
        /\ \/ /\ Action.type = "ADD_MESSAGE"
              /\ PayloadGet(Action.payload, "message", NoneVal).kind # "Message"
           \/ /\ Action.type = "UPDATE_STATUS"
              /\ PayloadGet(Action.payload, "status", NoneVal).kind # "ConversationStatus")
       => (NoEffect /\ ~lastDispatch'.reduced)]_vars

\* a truthy non-Message was rejected on a state that holds messages, with
\* subscribers registered
C11_Witness ==
    /\ middleware = DefaultMiddleware
    /\ lastDispatch.type = "ADD_MESSAGE"
    /\ PayloadGet(lastDispatch.action.payload, "message", NoneVal).kind = "str"
    /\ ~lastDispatch.reduced
    /\ state.messages # <<>>
    /\ Len(subscribers) > 1

\* C12 (SpecDispatch): Non-negative tokens.  context_window.current_tokens >= 0
\* in every reachable state of a State Manager, whatever actions are dispatched.
C12_NonNegativeTokens ==
    state.context_window.current_tokens >= 0

\* C13 (SpecDispatch): Unknown action is a no-op.  Dispatching an action whose
\* type is none of the five known ones returns a state equal to the current
\* one in every field, updated_at included, and notifies no subscriber.
C13_UnknownActionNoOp ==
    [][(Dispatched /\ Action.type \notin KnownActionTypes) => NoEffect]_vars

\* an action of unknown type carrying a payload was dispatched on a state that
\* holds messages, with subscribers registered
C13_Witness ==
    /\ lastDispatch.type = "RESET"
    /\ lastDispatch.action.payload # <<>>
    /\ lastDispatch.reduced
    /\ state.messages # <<>>
    /\ Len(subscribers) > 1

\* the field the reducer reads first for each known action type
RequiredField(type) ==
    CASE type = "ADD_MESSAGE" -> "message"
      [] type = "UPDATE_STATUS" -> "status"
      [] type = "COMPACT_CONVERSATION" -> "messages"
      [] type = "UPDATE_METADATA" -> "key"
      [] type = "UPDATE_CONTEXT_WINDOW" -> "max_tokens"

\* C14 (SpecDispatch): Malformed payload is a no-op.  For each of the five
\* known action kinds, an action whose payload is missing or lacks its
\* required field leaves the state unchanged.
C14_MalformedPayloadNoOp ==
    [][(/\ Dispatched
        /\ Action.type \in KnownActionTypes
        /\ RequiredField(Action.type) \notin DOMAIN Action.payload)
       => state' = state]_vars

\* C15 (SpecForce): Unknown strategy is a hard error with no effect.
\* force_compaction with a strategy whose name is not registered fails with
\* an error, dispatches no action, invokes no compaction callback and leaves
\* the conversation state unchanged; with a registered name it does not fail.
C15_UnknownStrategyHardError ==
    /\ [](force.phase # "none" =>
             (force.phase = "raised" <=> force.strategy.name \notin RegisteredStrategies))
    /\ [][(force' # force /\ force'.phase = "raised")
            => /\ state' = state
               /\ lastDispatch' = lastDispatch
               /\ stack' = stack
               /\ delivered' = delivered
               /\ force'.callbacks = 0]_vars

\* force_compaction was given an unregistered strategy on a conversation that
\* holds messages and whose own default strategy is registered
C15_Witness ==
    /\ force.phase = "raised"
    /\ force.strategy_used = "summarize"
    /\ strategy.name \in RegisteredStrategies
    /\ Len(state.messages) >= 2
    /\ state = force.before

\* C16 (SpecForce): Only force_compaction surfaces errors.  On a
\* ConversationManager whose default strategy has an unregistered name,
\* add_message, update_status and update_metadata raise nothing, the message
\* stays appended with its tokens counted, the status and the metadata are
\* set, and the auto-compaction handler applies no compaction.
C16_OnlyForceSurfacesErrors ==
    [][strategy.name \notin RegisteredStrategies =>
        /\ delivered' # delivered => (lastDispatch' = lastDispatch /\ state' = state)
        /\ (Dispatched /\ Action.type # "COMPACT_CONVERSATION") =>
              /\ ~lastDispatch'.raised
              /\ ~lastDispatch'.pipeline_raised
              /\ state' # state
        /\ (Dispatched /\ Action.type = "ADD_MESSAGE") =>
              /\ state'.messages = Append(state.messages, Action.payload["message"].m)
              /\ state'.context_window.current_tokens
                    = state.context_window.current_tokens
                        + count_message_tokens(Action.payload["message"].m)
        /\ (Dispatched /\ Action.type = "UPDATE_STATUS") =>
              /\ state'.status = Action.payload["status"].s
              /\ state'.messages = state.messages
        /\ (Dispatched /\ Action.type = "UPDATE_METADATA") =>
              /\ state'.metadata[Action.payload["key"].s] = Action.payload["value"].s
              /\ state'.messages = state.messages
      ]_vars

\* past the threshold with an unregistered default strategy, update_status
\* has returned and the handler has been called after each of the three calls
C16_Witness ==
    /\ strategy.name \notin RegisteredStrategies
    /\ needs_compaction(state.context_window)
    /\ Idle
    /\ lastDispatch.type = "UPDATE_STATUS"
    /\ state.status = "paused"
    /\ Len(state.messages) = 2
    /\ Len(delivered[AutoHandler]) = 3

\* C17 (SpecForce): force_compaction result.  The CompactionResult returned
\* by force_compaction reports original_messages equal to the message
\* sequence held before the call and tokens_saved equal to current_tokens
\* before the call minus current_tokens after it, so tokens_saved > 0
\* whenever the compaction dropped at least one message.
C17_ForceResult ==
    force.phase = "returned" =>
        LET result == force.result[1]
            after == force.after[1]
        IN  /\ result.original_messages = force.before.messages
            /\ result.tokens_saved = force.before.context_window.current_tokens
                                        - after.context_window.current_tokens
            /\ Len(after.messages) < Len(force.before.messages) => result.tokens_saved > 0

\* C18 (SpecForce): Snapshot immutability.  Every ConversationState the State
\* Manager has held or delivered to a subscriber still reads the same
\* messages and metadata from its list and dict objects after any later
\* sequence of dispatches; the current state is read through its own objects.
C18_SnapshotImmutability ==
    /\ \A snap \in heap.held :
          /\ heap.lists[snap.msgs] = snap.state.messages
          /\ heap.dicts[snap.meta] = snap.state.metadata
    /\ [state |-> state, msgs |-> heap.msgs, meta |-> heap.meta] \in heap.held
    /\ \A sub \in DOMAIN delivered : \A i \in 1..Len(delivered[sub]) :
          \E snap \in heap.held : snap.state = delivered[sub][i]

\* a forced compaction returned the input list itself, so the states before
\* and after it share one list object, and a message was added afterwards
C18_Witness ==
    /\ force.phase = "returned"
    /\ force.same_object
    /\ force.messages # <<>>
    /\ Len(state.messages) > Len(force.messages)
    /\ \E s0, s1 \in heap.held :
          /\ s0.state = force.before
          /\ s1.state # s0.state
          /\ s1.state.messages = force.messages
          /\ s1.msgs = s0.msgs
          /\ s1.msgs # heap.msgs

IsPrefix(s, t) == Len(s) <= Len(t) /\ SubSeq(t, 1, Len(s)) = s

\* C19 (SpecDispatch): AddMessage effect and append-only.  An accepted
\* ADD_MESSAGE yields the old messages followed by the new one, adds
\* token_count to token_usage.total_tokens and to current_tokens and leaves
\* id, status, metadata, max_tokens, compaction_threshold, prompt_tokens,
\* completion_tokens and created_at unchanged; for every transition other than
\* COMPACT_CONVERSATION the old message sequence is a prefix of the new one.
C19_AddMessageEffect ==
    [][Dispatched =>
        /\ (Action.type = "ADD_MESSAGE" /\ lastDispatch'.notify) =>
              LET token_count == PayloadGet(Action.payload, "token_count", IntVal(0)).v
              IN  /\ state'.messages = Append(state.messages, Entry(Action.payload["message"]))
                  /\ state'.token_usage.total_tokens
                        = state.token_usage.total_tokens + token_count
                  /\ state'.context_window.current_tokens
                        = state.context_window.current_tokens + token_count
                  /\ state'.id = state.id
                  /\ state'.status = state.status
                  /\ state'.metadata = state.metadata
                  /\ state'.context_window.max_tokens = state.context_window.max_tokens
                  /\ state'.context_window.compaction_threshold
                        = state.context_window.compaction_threshold
                  /\ state'.token_usage.prompt_tokens = state.token_usage.prompt_tokens
                  /\ state'.token_usage.completion_tokens
                        = state.token_usage.completion_tokens
                  /\ state'.created_at = state.created_at
        /\ Action.type # "COMPACT_CONVERSATION" => IsPrefix(state.messages, state'.messages)
      ]_vars

\* a message with a non-zero token count was appended to a state that
\* already held one
C19_Witness ==
    /\ lastDispatch.type = "ADD_MESSAGE"
    /\ lastDispatch.notify
    /\ lastDispatch.prior.messages # <<>>
    /\ state.token_usage.total_tokens > lastDispatch.prior.token_usage.total_tokens
    /\ state.status = "paused"

\* C20 (SpecDispatch): Timestamps.  id and created_at never change, and every
\* transition that changes the state refreshes updated_at, so two distinct
\* current states never share the same updated_at.
C20_Timestamps ==
    [][state' # state =>
         /\ state'.id = state.id
         /\ state'.created_at = state.created_at
         /\ state'.updated_at > state.updated_at]_vars

\* the task has dispatched an ADD_MESSAGE and its dispatch call has returned
AddedBy(th) ==
    /\ threads.task[th].pc = "done"
    /\ threads.task[th].action.type = "ADD_MESSAGE"

\* the message task th dispatched is in the state held now
Kept(th) ==
    \E i \in 1..Len(state.messages) :
        state.messages[i] = threads.task[th].action.payload["message"].m

\* C21 (SpecRace): Lost update under unserialized dispatch.  When every
\* dispatch call is awaited before the next one starts, the state holds the
\* message of every ADD_MESSAGE dispatch that has returned, and as many
\* messages as there were such dispatches; without that discipline a final
\* state that holds only one of two dispatched messages is reachable
\* (C21_LostUpdate).
C21_SerializedKeepsBoth ==
    threads.awaited =>
        /\ \A th \in Tasks : AddedBy(th) => Kept(th)
        /\ Len(state.messages) = Cardinality({th \in Tasks : AddedBy(th)})

\* C21 witness: two overlapping ADD_MESSAGE dispatches have both returned and
\* the state holds the message of only one of them
C21_LostUpdate ==
    /\ ~threads.awaited
    /\ AddedBy(1) /\ AddedBy(2)
    /\ Kept(1) # Kept(2)
    /\ Len(state.messages) = 1

\* the callbacks whose closure has not been called, in registration order
Registered ==
    LET live == SelectSeq(closures, LAMBDA c : c.calls = 0)
    IN  [i \in 1..Len(live) |-> live[i].callback]

\* how often callback s is in the list
Registrations(list, s) == Cardinality({i \in 1..Len(list) : list[i] = s})

\* C22 (SpecSubs): Unsubscribe.  The registrations are those whose closure has
\* not been called: a call of a closure removes its own registration, a
\* repeated call changes nothing, the registrations of other subscribe calls
\* stay, and a callback is invoked only while one of its registrations is left.
C22_Unsubscribe ==
    [][/\ (closures' # closures /\ Len(closures') = Len(closures)) =>
              \A s \in {AutoHandler} \cup Observers :
                  Registrations(subscribers', s) = Registrations(Registered', s)
       /\ \A s \in Observers :
              delivered'[s] # delivered[s] =>
                  \E i \in 1..Len(Registered) : Registered[i] = s]_vars

\* C23 (SpecSubs): close().  After ConversationManager.close() the
\* auto-compaction handler is not subscribed and no state change, not even
\* one to a state that needs compaction, is followed by a dispatch of
\* COMPACT_CONVERSATION; a second close() changes nothing.
C23_Close ==
    [][executor = "shutdown" =>
          /\ \A i \in 1..Len(subscribers') : subscribers'[i] # AutoHandler
          /\ lastDispatch'.n # lastDispatch.n =>
                 lastDispatch'.type # "COMPACT_CONVERSATION"
          /\ closures'[1].calls # closures[1].calls =>
                 UNCHANGED <<state, subscribers, executor, stack, delivered,
                             lastDispatch>>]_vars

\* C23 witness: close() was called twice and the messages added afterwards
\* have brought the state to its compaction threshold; the round of the last
\* add_message has ended
C23_Witness ==
    /\ executor = "shutdown"
    /\ closures[1].calls = 2
    /\ Idle
    /\ lastDispatch.type = "ADD_MESSAGE" /\ lastDispatch.notify
    /\ needs_compaction(state.context_window)
    /\ Len(state.messages) = 2

\* the dispatch made in this step was of the given type and replaced the state
Accepted(type) ==
    /\ Dispatched
    /\ Action.type = type
    /\ lastDispatch'.notify

\* C24 (SpecForce): CompactConversation frame.  An accepted
\* COMPACT_CONVERSATION puts the payload's messages and token_count into
\* messages and context_window.current_tokens and leaves token_usage, status,
\* metadata, max_tokens, compaction_threshold, id and created_at as they were.
C24_CompactFrame ==
    [][Accepted("COMPACT_CONVERSATION") =>
          LET new_messages == PayloadGet(Action.payload, "messages", ListVal(<<>>))
              new_token_count == PayloadGet(Action.payload, "token_count", IntVal(0))
          IN  /\ state'.messages = new_messages.ms
              /\ IF new_token_count.kind = "int"
                 THEN /\ state'.context_window.current_tokens = new_token_count.v
                      /\ ~state'.context_window.tokens_none
                 ELSE state'.context_window.tokens_none
              /\ state'.token_usage = state.token_usage
              /\ state'.status = state.status
              /\ state'.metadata = state.metadata
              /\ state'.context_window.max_tokens = state.context_window.max_tokens
              /\ state'.context_window.compaction_threshold
                     = state.context_window.compaction_threshold
              /\ state'.id = state.id
              /\ state'.created_at = state.created_at]_vars

\* C24 witness: a paused conversation has just been compacted from two
\* messages to one; token_usage still counts both
C24_Witness ==
    /\ lastDispatch.type = "COMPACT_CONVERSATION" /\ lastDispatch.notify
    /\ state.status = "paused"
    /\ Len(lastDispatch.prior.messages) = 2 /\ Len(state.messages) = 1
    /\ state.token_usage.total_tokens > state.context_window.current_tokens
    /\ state.context_window.current_tokens > 0

\* C25 (SpecDispatch): UpdateContextWindow frame.  An UPDATE_CONTEXT_WINDOW
\* with a positive max_tokens changes context_window.max_tokens and nothing
\* else (updated_at included), and subscribers are notified exactly when the
\* new max_tokens differs from the old one.
C25_UpdateContextWindowFrame ==
    [][(/\ Dispatched
        /\ Action.type = "UPDATE_CONTEXT_WINDOW"
        /\ PayloadGet(Action.payload, "max_tokens", NoneVal).kind = "int"
        /\ PayloadGet(Action.payload, "max_tokens", NoneVal).v > 0) =>
          LET max_tokens == Action.payload["max_tokens"].v
          IN  /\ state' = [state EXCEPT !.context_window.max_tokens = max_tokens]
              /\ lastDispatch'.notify <=> (max_tokens # state.context_window.max_tokens)
              /\ lastDispatch'.notify => stack' = Append(stack, Top')
              /\ ~lastDispatch'.notify => stack' = stack]_vars

\* C25 witness: max_tokens was brought from 200 to 100 under a message, and a
\* second dispatch of the same action has found nothing to change
C25_Witness ==
    /\ lastDispatch.type = "UPDATE_CONTEXT_WINDOW" /\ ~lastDispatch.notify
    /\ lastDispatch.action.payload # <<>>
    /\ state.context_window.max_tokens = 100
    /\ state.context_window.current_tokens > 0
    /\ state.updated_at < now

\* current_tokens / max_tokens >= compaction_threshold with max_tokens > 0
AtThreshold(cw) ==
    /\ cw.max_tokens > 0
    /\ cw.current_tokens * 100 >= cw.compaction_threshold * cw.max_tokens

\* in this step the auto-compaction handler is called with a state, below the
\* depth at which the interpreter ends the chain of nested rounds
HandlerCalled ==
    /\ delivered'[AutoHandler] # delivered[AutoHandler]
    /\ Len(stack) < MaxDepth

\* the handler called in this step dispatches COMPACT_CONVERSATION
HandlerDispatches == Dispatched /\ Action.type = "COMPACT_CONVERSATION"

\* no state the handler has seen, nor the current one, was at the threshold
StayedBelow ==
    /\ ~AtThreshold(state.context_window)
    /\ \A i \in 1..Len(delivered[AutoHandler]) :
           ~AtThreshold(delivered[AutoHandler][i].context_window)

\* while utilization stays below the threshold nothing is compacted: the
\* messages are the ones added and no step dispatches COMPACT_CONVERSATION
BelowThresholdNoCompaction ==
    /\ StayedBelow' => Len(state'.messages) = nextId' - 1
    /\ (StayedBelow /\ Dispatched) => Action.type # "COMPACT_CONVERSATION"

\* C26 (SpecTrigger), as stated: Trigger condition.  The handler called with
\* a new state dispatches COMPACT_CONVERSATION if and only if the state is at
\* or above the threshold with max_tokens > 0, whatever the default
\* strategy; below the threshold, or with max_tokens = 0, nothing is compacted.
C26_TriggerIff ==
    [][/\ HandlerCalled => (HandlerDispatches <=> AtThreshold(Top.new_state.context_window))
       /\ BelowThresholdNoCompaction]_vars

\* C26 (SpecTrigger), amended: the handler called with a new state dispatches
\* COMPACT_CONVERSATION if and only if the state is at or above the threshold
\* (equality included) with max_tokens > 0 and the default strategy's name is
\* registered; below the threshold, or with max_tokens = 0, nothing is
\* compacted and the message count is the number of messages added.
C26_TriggerIffRegistered ==
    [][/\ HandlerCalled =>
              (HandlerDispatches <=>
                  /\ AtThreshold(Top.new_state.context_window)
                  /\ strategy.name \in RegisteredStrategies)
       /\ BelowThresholdNoCompaction]_vars

\* C26 witness: the handler has dispatched a compaction of a state that was
\* exactly at its threshold (85 of 100 tokens)
C26_Witness ==
    /\ lastDispatch.type = "COMPACT_CONVERSATION"
    /\ lastDispatch.prior.context_window.max_tokens = 100
    /\ lastDispatch.prior.context_window.current_tokens = 85
    /\ Len(delivered[AutoHandler]) = 1

\* the last k messages of s
Newest(s, k) == SubSeq(s, Len(s) - k + 1, Len(s))

\* the longest run of newest messages of s whose token total is within budget
LongestNewestRun(s, budget) ==
    LET fits == {k \in 0..Len(s) : calculate_conversation_tokens(Newest(s, k)) <= budget}
    IN  Newest(s, CHOOSE k \in fits : \A j \in fits : j <= k)

\* C27 (SpecCompact): Chronological partition and greedy fill.  For more than
\* preserve_recent_messages messages and a positive remaining budget, the
\* output of chronological compaction is the retained system messages, then
\* the longest run of newest middle messages that fits the remaining budget,
\* then the last preserve_recent_messages messages, where the middle is made
\* of the messages that are neither retained system messages nor among the
\* last preserve_recent_messages, wherever the system messages sit.
C27_ChronologicalPartition ==
    LET messages == probe.messages
        p == probe.strategy.preserve_recent_messages
        retained(m) == IsSystem(m) /\ probe.strategy.preserve_system_messages
        system == SelectSeq(messages, retained)
        recent == Newest(messages, p)
        middle == SelectSeq(SubSeq(messages, 1, Len(messages) - p),
                            LAMBDA m : ~retained(m))
        budget == probe.target_tokens - calculate_conversation_tokens(system)
                    - calculate_conversation_tokens(recent)
    IN  (/\ ProbeDone
         /\ probe.strategy.name = "chronological"
         /\ Len(messages) > p
         /\ budget > 0) =>
            ProbeResult.compacted_messages
                = system \o LongestNewestRun(middle, budget) \o recent

\* important for tool_context: role tool, tool calls present, or a system
\* message under preserve_system_messages
ToolImportant(m) ==
    \/ m.role = "tool"
    \/ m.tool_calls # <<>>
    \/ (m.role = "system" /\ probe.strategy.preserve_system_messages)

ProbeImportant == SelectSeq(probe.messages, ToolImportant)

ProbeRegular == SelectSeq(probe.messages, LAMBDA m : ~ToolImportant(m))

\* C28 (SpecCompact): tool_context keeps important messages within budget.
\* When the important messages total fewer tokens than target_tokens, the
\* output holds every important message exactly once, its regular messages
\* are the longest run of newest regular messages that fits what the
\* important ones leave of the target, and its token total is at most
\* target_tokens.
C28_ToolContextWithinBudget ==
    (/\ ProbeDone
     /\ probe.strategy.name = "tool_context"
     /\ calculate_conversation_tokens(ProbeImportant) < probe.target_tokens) =>
        LET out == ProbeResult.compacted_messages
        IN  /\ \A i \in 1..Len(ProbeImportant) :
                   Occurrences(out, ProbeImportant[i].id) = 1
            /\ SelectSeq(out, LAMBDA m : ~ToolImportant(m))
                   = LongestNewestRun(ProbeRegular,
                         probe.target_tokens
                           - calculate_conversation_tokens(ProbeImportant))
            /\ calculate_conversation_tokens(out) <= probe.target_tokens

\* C28 witness: an important message is kept, the newest regular message fits
\* beside it and an older regular message does not
C28_Witness ==
    /\ ProbeDone
    /\ probe.strategy.name = "tool_context"
    /\ Len(ProbeImportant) = 1 /\ Len(ProbeRegular) = 2
    /\ calculate_conversation_tokens(ProbeImportant) < probe.target_tokens
    /\ Len(ProbeResult.compacted_messages) = 2
    /\ Occurrences(ProbeResult.compacted_messages, ProbeRegular[2].id) = 1

\* C29 (SpecCompact): tool_context over-budget branch.  When the important
\* messages total target_tokens or more, the output of tool_context
\* compaction holds no regular message and is the result of chronological
\* compaction of the important messages alone, same target and strategy.
C29_ToolContextOverBudget ==
    (/\ ProbeDone
     /\ probe.strategy.name = "tool_context"
     /\ calculate_conversation_tokens(ProbeImportant) >= probe.target_tokens) =>
        LET out == ProbeResult.compacted_messages
        IN  /\ \A k \in 1..Len(out) : ToolImportant(out[k])
            /\ out = chronological_compaction(ProbeImportant, probe.target_tokens,
                                               probe.strategy)

\* C29 witness: two tool messages exceed the target beside a regular message;
\* chronological compaction of the two keeps the newer one only
C29_Witness ==
    /\ ProbeDone
    /\ probe.strategy.name = "tool_context"
    /\ probe.target_tokens > 0
    /\ calculate_conversation_tokens(ProbeImportant) >= probe.target_tokens
    /\ Len(ProbeImportant) = 2 /\ Len(ProbeRegular) = 1
    /\ ProbeResult.compacted_messages = <<ProbeImportant[2]>>

\* in this step force_compaction's call of compact_conversation returns
CompactConversationReturns == force'.phase = "compacted" /\ force.phase # "compacted"

\* C30 (SpecCallbacks): Compaction callbacks and purity.  A call of
\* compact_conversation invokes every registered compaction callback exactly
\* once, in registration order, each with the compaction result, a raising
\* callback among them notwithstanding; it returns the compacted sequence with
\* the sum of its message token counts and leaves the State Manager's state
\* as it is (nothing is dispatched, nobody is notified).
C30_CallbacksAndPurity ==
    [][CompactConversationReturns =>
          LET result == compact(state.messages,
                                target_tokens_for(state.context_window.max_tokens,
                                                  force'.strategy),
                                force'.strategy)
              made == SubSeq(callback_log', Len(callback_log) + 1, Len(callback_log'))
          IN  /\ SubSeq(callback_log', 1, Len(callback_log)) = callback_log
              /\ Len(made) = Len(compaction_callbacks)
              /\ \A i \in 1..Len(made) :
                     /\ made[i].callback = compaction_callbacks[i]
                     /\ made[i].result.compacted_messages = result.compacted_messages
                     /\ made[i].result.tokens_saved = result.tokens_saved
              /\ force'.messages = result.compacted_messages
              /\ force'.token_count = calculate_conversation_tokens(force'.messages)
              /\ UNCHANGED <<state, stack, lastDispatch, delivered, subscribers>>]_vars

\* C30 witness: with a raising callback registered between two others,
\* compact_conversation has compacted two messages to one and the log ends
\* with the invocations of all three
C30_Witness ==
    /\ force.phase = "compacted"
    /\ compaction_callbacks = <<OnCompaction, FailingCallback, Callback>>
    /\ Len(force.before.messages) = 2 /\ Len(force.messages) = 1
    /\ Len(callback_log) = 3
    /\ callback_log[3].callback = Callback

\* the middleware entered by the most recent dispatch, in the order entered
Entered == SelectSeq(lastDispatch.trace, LAMBDA e : e.what = "enter")

\* the middleware left by the most recent dispatch, in the order left
Left == SelectSeq(lastDispatch.trace, LAMBDA e : e.who # "reducer" /\ e.what # "enter")

\* the calls of the reducer made by the most recent dispatch
ReducerCalls == SelectSeq(lastDispatch.trace, LAMBDA e : e.who = "reducer")

ProbeAs(name) ==
    compact(probe.messages, probe.target_tokens, [probe.strategy EXCEPT !.name = name])

\* C32 (SpecCompact): semantic equals chronological.  For every message
\* sequence, target_tokens and strategy parameters, compaction with strategy
\* name semantic returns the same message sequence and the same tokens_saved
\* as compaction with strategy name chronological.
C32_SemanticIsChronological ==
    (ProbeDone /\ probe.strategy.name = "semantic") =>
        /\ ~ProbeAs("chronological").raised
        /\ ProbeResult.compacted_messages = ProbeAs("chronological").compacted_messages
        /\ ProbeResult.tokens_saved = ProbeAs("chronological").tokens_saved

\* a semantic compaction that dropped a message and kept a middle one
C32_Witness ==
    /\ ProbeDone
    /\ probe.strategy.name = "semantic"
    /\ probe.strategy.preserve_recent_messages = 1
    /\ Len(probe.messages) = 3
    /\ Len(ProbeResult.compacted_messages) = 2
    /\ ProbeResult.compacted_messages[1].id = 2
    /\ ProbeResult.tokens_saved > 0

\* C33 (SpecForce): No duplicated messages.  After any sequence of facade
\* calls (add_message of any role, force_compaction with any registered
\* strategy, and the auto-compactions they trigger), no message id occurs more
\* than once in state.messages, and every message in state.messages was
\* previously passed to add_message.
C33_NoDuplicatedMessages ==
    /\ \A k \in 1..Len(state.messages) :
          /\ state.messages[k].id \in 1..(nextId - 1)
          /\ Occurrences(state.messages, state.messages[k].id) = 1

\* C34 (SpecForce): Window never exceeds cumulative usage.  After any
\* sequence of facade calls (add_message, force_compaction, update_status,
\* update_metadata, with auto-compaction), context_window.current_tokens <=
\* token_usage.total_tokens, and token_usage.total_tokens never decreases.
C34_WindowWithinUsage ==
    /\ [](state.context_window.current_tokens <= state.token_usage.total_tokens)
    /\ [][state'.token_usage.total_tokens >= state.token_usage.total_tokens]_vars

\* C35 (SpecAdd): Last notification is current.  When a facade call returns
\* (no notification round is left open), the last state delivered to each
\* subscriber registered through subscribe_to_changes equals the State
\* Manager's current state, including when the call triggered an
\* auto-compaction.
C35_LastNotificationCurrent ==
    Quiescent =>
        \A s \in Observers :
            (Registrations(subscribers, s) > 0 /\ delivered[s] # <<>>)
                => delivered[s][Len(delivered[s])] = state

\* C36 (SpecUnsub): Unsubscribe during notification.  When a notification
\* round ends, every subscriber that was registered when the round started
\* and was not itself unsubscribed has been invoked exactly once with the new
\* state, even when some subscriber called its own (or another subscriber's)
\* unsubscribe closure from inside its callback during that round.
C36_UnsubscribeDuringNotification ==
    [][(Len(stack') = Len(stack) - 1) =>
          \A i \in 1..Len(Top.registered) :
              Top.registered[i] \notin Top.removed
                  => Registrations(Top.called, Top.registered[i]) = 1]_vars

\* the ids of the messages of a sequence
Ids(messages) == {messages[k].id : k \in 1..Len(messages)}

\* the step dispatches COMPACT_CONVERSATION from the auto-compaction handler,
\* which was handed the state Top.new_state
CompactsSnapshot ==
    /\ lastDispatch'.n # lastDispatch.n
    /\ lastDispatch'.type = "COMPACT_CONVERSATION"

\* C37 (SpecLoop): No stale overwrite on one event loop.  When several tasks
\* call add_message on a default ConversationManager and interleave only
\* where a dispatch is suspended awaiting a synchronous subscriber run in the
\* executor, a message passed to add_message is in the state from then on
\* unless a compaction whose input sequence contained it removes it, and the
\* snapshot a CompactConversation was computed from holds every message of
\* the state it replaces: none was appended after the snapshot.
C37_NoStaleOverwrite ==
    [][/\ nextId' # nextId => nextId \in Ids(state'.messages)
       /\ \A id \in Ids(state.messages) \ Ids(state'.messages) :
              CompactsSnapshot /\ id \in Ids(Top.new_state.messages)
       /\ CompactsSnapshot =>
              /\ state.messages = Top.new_state.messages
              /\ lastDispatch'.action.payload.messages
                    = ListVal(compact_conversation(Top.new_state, strategy).messages)]_vars

\* an auto-compaction has dropped a message while the add_message call of
\* another task is suspended in a round for an older state
C37_Witness ==
    /\ lastDispatch.type = "COMPACT_CONVERSATION"
    /\ Len(state.messages) < Len(lastDispatch.prior.messages)
    /\ \E th \in Tasks :
          /\ threads.task[th].pc = "suspended"
          /\ threads.task[th].stack[1].cause = "ADD_MESSAGE"
          /\ threads.task[th].stack[1].new_state # lastDispatch.prior
    /\ \E th \in Tasks : Running(th)

\* the system messages chronological compaction retains
ProbeSystem ==
    SelectSeq(probe.messages,
              LAMBDA m : IsSystem(m) /\ probe.strategy.preserve_system_messages)

\* the last preserve_recent_messages messages of the input
ProbeRecent ==
    SubSeq(probe.messages,
           Len(probe.messages) - probe.strategy.preserve_recent_messages + 1,
           Len(probe.messages))

\* C38 (SpecCompact): Budget respected when the preserved blocks fit.  For
\* chronological compaction with len(messages) > preserve_recent_messages, if
\* the token total of the retained system messages plus that of the last
\* preserve_recent_messages messages is <= target_tokens, then the token total
\* of the output is <= target_tokens.
C38_BudgetRespected ==
    (/\ ProbeDone
     /\ probe.strategy.name = "chronological"
     /\ Len(probe.messages) > probe.strategy.preserve_recent_messages
     /\ calculate_conversation_tokens(ProbeSystem)
          + calculate_conversation_tokens(ProbeRecent) <= probe.target_tokens)
    => calculate_conversation_tokens(ProbeResult.compacted_messages)
          <= probe.target_tokens

\* the messages chronological compaction does not retain as system messages
ProbeRest ==
    SelectSeq(probe.messages,
              LAMBDA m : ~(IsSystem(m) /\ probe.strategy.preserve_system_messages))

\* the newest of them that fit what the retained system messages leave
ProbeRestFitting ==
    LET budget == probe.target_tokens - calculate_conversation_tokens(ProbeSystem)
    IN  IF budget < 0 THEN <<>> ELSE LongestNewestRun(ProbeRest, budget)

\* C39 (SpecCompact): preserve_recent_messages = 0.  Chronological compaction
\* with preserve_recent_messages = 0 preserves no recent block: for a
\* non-empty input whose token total exceeds target_tokens and that contains
\* at least one non-system message, the output has strictly fewer tokens than
\* the input and contains only retained system messages plus the newest
\* non-system messages that fit the remaining budget.
C39_PreserveNoRecent ==
    (/\ ProbeDone
     /\ probe.strategy.name = "chronological"
     /\ probe.strategy.preserve_recent_messages = 0
     /\ probe.messages # <<>>
     /\ calculate_conversation_tokens(probe.messages) > probe.target_tokens
     /\ \E k \in 1..Len(probe.messages) : ~IsSystem(probe.messages[k]))
    => /\ calculate_conversation_tokens(ProbeResult.compacted_messages)
            < calculate_conversation_tokens(probe.messages)
       /\ Ids(ProbeResult.compacted_messages)
            \subseteq Ids(ProbeSystem) \cup Ids(ProbeRestFitting)
====
